---------------------------- MODULE Spec2Model ----------------------------
(***************************************************************************)
(* State-machine model of the stock scanner bot:                           *)
(*   - KISClient.get_access_token / _is_token_valid  (src/kis_client.py)   *)
(*   - the _kis_lock run gate of /collect, /scan and auto_scan (main.py)   *)
(*   - the fetch coordinator get_top_growth_stocks   (src/kis_client.py)   *)
(*   - run_collection and the price store            (main.py, db.py)      *)
(*   - save_daily_prices, get_cached_stock_codes, get_prices and           *)
(*     get_prices_by_codes of the daily store        (src/db.py)           *)
(*   - check_golden_cross                    (src/analysis_engine.py)      *)
(*   - run_analysis_from_db, find_reentry_stocks and the snapshot          *)
(*     files of the data directory                   (src/main.py)         *)
(*   - add_watchlist / remove_watchlist              (src/db.py)           *)
(* Dates are the integers YYYYMMDD; returns are hundredths of a percent.   *)
(* Time is counted in whole minutes.                                       *)
(***************************************************************************)
EXTENDS Integers, Sequences, FiniteSets, TLC

\* ------------------------------------------------------------------ bounds
NumCallers == 2      \* threads that call get_access_token concurrently
MaxTime == 2         \* the clock runs 0..MaxTime
MaxLifetime == 2     \* a server-declared expiry is 1..MaxLifetime minutes ahead
MaxTokens == 2       \* no call begins once this many refreshes have completed
NumRequests == 3     \* /collect and /scan interactions in one behaviour
MaxAutoRuns == 1     \* scheduled firings of auto_scan in one behaviour
MaxBatch == 6        \* instruments in one batch of the fetch coordinator
MaxListed == 2       \* instruments listed on one market during a collection
MaxDate == 1         \* trading days are 1..MaxDate
NumCodes == 2        \* instruments in the daily store
FirstDay == 21       \* day of the year 2024 of the first sampled trading day
DayStride == 5       \* calendar days between two sampled trading days
MaxStep == 3         \* sampled trading days are numbered 0..MaxStep
MaxWriteStep == 1    \* save_daily_prices is given days 0..MaxWriteStep only
MaxClose == 3        \* closing prices are 0, 1 and MaxClose
MaxRecords == 2      \* records in one call of save_daily_prices
MaxSaves == 2        \* calls of save_daily_prices in one behaviour
MaxRowsPer == 2      \* stored rows of one instrument when a query is made
MaxRankStep == 2     \* the ranked tables hold days 0..MaxRankStep only
MaxCandles == 7      \* candles in the frame given to check_golden_cross
REENTRY_LOWER == 2   \* config.REENTRY_LOWER (51), scaled to the small snapshots
REENTRY_UPPER == 3   \* config.REENTRY_UPPER (100), scaled likewise
TOP_N == 3           \* config.TOP_N (100), scaled likewise
MaxRuns == 3         \* runs of run_analysis_from_db in one behaviour
MaxSnapshot == 4     \* instruments of the snapshots given to find_reentry_stocks
NumUsers == 2        \* users who keep a watchlist
MaxToday == 2        \* datetime.date.today() is one of the days 1..MaxToday
MaxWatchOps == 3     \* calls of add_watchlist and remove_watchlist in one behaviour

\* --------------------------------------------------------------- constants
None == 0            \* self.access_token = None / self.token_expired_at = None
buffer == 1          \* datetime.timedelta(minutes=1)
max_workers == 5     \* ThreadPoolExecutor(max_workers=5)
NULL == -1           \* a None bound to a column (종가 INTEGER NOT NULL)
tolerance == 7       \* timedelta(days=7)
NaN == -2            \* a close pd.to_numeric(errors="coerce") could not parse
min_candles == 6     \* len(df) < 6
window3 == 3         \* rolling(window=3)
window5 == 5         \* rolling(window=5)

Callers == 1..NumCallers
Requests == 1..NumRequests

VARIABLES
    now,              \* datetime.datetime.now(), in minutes
    access_token,     \* KISClient.access_token (None or a token id)
    token_expired_at, \* KISClient.token_expired_at (None or a minute)
    token_lock,       \* holder of KISClient._token_lock (None when free)
    tpc,              \* position of each caller inside get_access_token
    pending,          \* the expiry parsed from the response, not yet stored
    ret,              \* the token the call returned (None when it has not)
    posts,            \* number of requests.post issued by the call
    sawInvalid,       \* the call's first, lock-free check found no valid token
    startEpoch,       \* number of refreshes completed when that check was made
    raced,            \* another caller's exchange was in flight during the call
    epoch,            \* number of refreshes completed (token and expiry stored)
    kis_value,        \* _kis_lock._value, the asyncio.Semaphore(1) counter
    kis_waiters,      \* _kis_lock._waiters, requests suspended in acquire()
    rpc,              \* position of each /collect or /scan interaction
    rkind,            \* "collect" or "scan" once the interaction has arrived
    auto,             \* auto_scan: "idle" or "scanning"
    autoRuns,         \* number of times the auto_scan loop has fired
    bpc,              \* the coordinator: "idle", "running" or "returned"
    bkind,            \* "price" (get_top_growth_stocks) or "fin" (add_financial_data)
    total,            \* total = len(stocks) / len(results)
    stage,            \* number of submitted items at each stage
    results_lock,     \* results_lock / completed_lock is held
    completed,        \* completed[0]
    results,          \* len(results)
    dropped,          \* items whose fetch raised or gave no usable data
    authFailures,     \* credential exchanges that failed inside the workflow
    wf,               \* position of run_collection
    wferr,            \* the exception run_collection raised, if any
    start_date,       \* run_collection's start_date
    end_date,         \* run_collection's end_date
    kospi_all,        \* len(kospi_all_df)
    kosdaq_all,       \* len(kosdaq_all_df)
    prices,           \* table prices (legacy period cache)
    daily_prices,     \* table daily_prices (the committed rows)
    spc,              \* position of save_daily_prices
    records,          \* save_daily_prices' argument records
    cursor,           \* rows of the batch executemany has executed
    txn,              \* the table as the open connection sees it
    snapshot,         \* table daily_prices when the call began
    lastWrite,        \* per key, the value of the last committed write
    prevBatch,        \* the batch of the call that committed last
    saves,            \* calls of save_daily_prices made so far
    answer,           \* the last query and what it returned
    df,               \* check_golden_cross' argument: closes, oldest first
    verdict,          \* the dict check_golden_cross returned
    data_dir,         \* the files growth_combined_*.csv of config.DATA_DIR
    apc,              \* position of each run of run_analysis_from_db
    csv_path,         \* the run's csv_path (NoFile before it is written)
    combined_top100,  \* the run's combined_top100
    prev_file,        \* the run's prev_file (NoFile when there is none)
    prev_df,          \* the run's prev_df
    reentry_df,       \* the run's reentry_df
    watchlist,        \* table watchlist
    wl_call,          \* the last call of add_watchlist or remove_watchlist
    wl_ops            \* calls of the two functions made so far

tokenVars == <<now, access_token, token_expired_at, token_lock, tpc, pending,
               ret, posts, sawInvalid, startEpoch, raced, epoch>>

gateVars == <<kis_value, kis_waiters, rpc, rkind, auto, autoRuns>>

batchVars == <<bpc, bkind, total, stage, results_lock, completed, results,
               dropped, authFailures>>

collectVars == <<wf, wferr, start_date, end_date, kospi_all, kosdaq_all,
                 prices, daily_prices>>

storeVars == <<spc, records, cursor, txn, snapshot, lastWrite, prevBatch,
               saves>>

analysisVars == <<answer, df, verdict>>

dbVars == <<storeVars, analysisVars>>

runVars == <<data_dir, apc, csv_path, combined_top100, prev_file, prev_df,
             reentry_df>>

watchVars == <<watchlist, wl_call, wl_ops>>

appVars == <<runVars, watchVars>>

vars == <<tokenVars, gateVars, batchVars, collectVars, dbVars, appVars>>

nonTokenVars == <<gateVars, batchVars, collectVars, dbVars, appVars>>
nonGateVars == <<tokenVars, batchVars, collectVars, dbVars, appVars>>
nonBatchVars == <<gateVars, collectVars, dbVars, appVars>>
nonDbVars == <<tokenVars, gateVars, batchVars, wf, wferr, start_date, end_date,
               kospi_all, kosdaq_all, prices, appVars>>
nonAppVars == <<tokenVars, gateVars, batchVars, collectVars, dbVars>>
nonRunVars == <<nonAppVars, watchVars>>
nonWatchVars == <<nonAppVars, runVars>>

\* ------------------------------------------------- session token manager

\* KISClient._is_token_valid
is_token_valid_nobuffer ==
    /\ access_token # None
    /\ token_expired_at # None
    /\ now < token_expired_at

is_token_valid ==
    /\ access_token # None
    /\ token_expired_at # None
    /\ now < token_expired_at - buffer

\* the caller's exchange is under way: request sent, result not yet stored
Exchanging(t) == tpc[t] \in {"post", "store"}

\* a caller enters get_access_token
Call(t) ==
    /\ tpc[t] = "idle"
    /\ epoch < MaxTokens
    /\ tpc' = [tpc EXCEPT ![t] = "check1"]
    /\ UNCHANGED <<now, access_token, token_expired_at, token_lock, pending,
                   ret, posts, sawInvalid, startEpoch, raced, epoch>>
    /\ UNCHANGED nonTokenVars

\* line 101: if self._is_token_valid():
Check1(t) ==
    /\ tpc[t] = "check1"
    /\ IF is_token_valid
          THEN /\ tpc' = [tpc EXCEPT ![t] = "ret1"]
               /\ UNCHANGED <<sawInvalid, startEpoch, raced>>
          ELSE /\ tpc' = [tpc EXCEPT ![t] = "lock"]
               /\ sawInvalid' = [sawInvalid EXCEPT ![t] = TRUE]
               /\ startEpoch' = [startEpoch EXCEPT ![t] = epoch]
               /\ raced' = [raced EXCEPT ![t] =
                                \E u \in Callers \ {t} : Exchanging(u)]
    /\ UNCHANGED <<now, access_token, token_expired_at, token_lock, pending,
                   ret, posts, epoch>>
    /\ UNCHANGED nonTokenVars

\* line 102: return self.access_token (read without the lock)
Ret1(t) ==
    /\ tpc[t] = "ret1"
    /\ ret' = [ret EXCEPT ![t] = access_token]
    /\ tpc' = [tpc EXCEPT ![t] = "returned"]
    /\ UNCHANGED <<now, access_token, token_expired_at, token_lock, pending,
                   posts, sawInvalid, startEpoch, raced, epoch>>
    /\ UNCHANGED nonTokenVars

\* line 104: with self._token_lock:  (blocks until the lock is free)
AcquireNoExclusion(t) ==
    /\ tpc[t] = "lock"
    /\ token_lock' = t
    /\ tpc' = [tpc EXCEPT ![t] = "recheck"]
    /\ UNCHANGED <<now, access_token, token_expired_at, pending, ret, posts,
                   sawInvalid, startEpoch, raced, epoch>>
    /\ UNCHANGED nonTokenVars

Acquire(t) ==
    /\ tpc[t] = "lock"
    /\ token_lock = None
    /\ token_lock' = t
    /\ tpc' = [tpc EXCEPT ![t] = "recheck"]
    /\ UNCHANGED <<now, access_token, token_expired_at, pending, ret, posts,
                   sawInvalid, startEpoch, raced, epoch>>
    /\ UNCHANGED nonTokenVars

\* lines 106-119: the second check under the lock, then requests.post
RecheckAlwaysPost(t) ==
    /\ tpc[t] = "recheck"
    /\ tpc' = [tpc EXCEPT ![t] = "post"]
    /\ posts' = [posts EXCEPT ![t] = @ + 1]
    /\ raced' = [u \in Callers |-> raced[u] \/ (u # t /\ tpc[u] = "lock")]
    /\ UNCHANGED <<now, access_token, token_expired_at, token_lock, pending,
                   ret, sawInvalid, startEpoch, epoch>>
    /\ UNCHANGED nonTokenVars

Recheck(t) ==
    /\ tpc[t] = "recheck"
    /\ IF is_token_valid
          THEN /\ ret' = [ret EXCEPT ![t] = access_token]
               /\ tpc' = [tpc EXCEPT ![t] = "returned"]
               /\ token_lock' = None
               /\ UNCHANGED <<posts, raced>>
          ELSE /\ tpc' = [tpc EXCEPT ![t] = "post"]
               /\ posts' = [posts EXCEPT ![t] = @ + 1]
               /\ raced' = [u \in Callers |->
                               raced[u] \/ (u # t /\ tpc[u] = "lock")]
               /\ UNCHANGED <<ret, token_lock>>
    /\ UNCHANGED <<now, access_token, token_expired_at, pending, sawInvalid,
                   startEpoch, epoch>>
    /\ UNCHANGED nonTokenVars

\* lines 121-124: a non-200 response raises RuntimeError out of the with block
PostFailKeepsLock(t) ==
    /\ tpc[t] = "post"
    /\ tpc' = [tpc EXCEPT ![t] = "raised"]
    /\ UNCHANGED <<now, access_token, token_expired_at, token_lock, pending,
                   ret, posts, sawInvalid, startEpoch, raced, epoch>>
    /\ UNCHANGED nonTokenVars

PostFail(t) ==
    /\ tpc[t] = "post"
    /\ tpc' = [tpc EXCEPT ![t] = "raised"]
    /\ token_lock' = None
    /\ UNCHANGED <<now, access_token, token_expired_at, pending, ret, posts,
                   sawInvalid, startEpoch, raced, epoch>>
    /\ UNCHANGED nonTokenVars

\* the token is stored and the lock given up before the expiry is stored
PostOkReleases(t) ==
    /\ tpc[t] = "post"
    /\ \E d \in 1..MaxLifetime :
          pending' = [pending EXCEPT ![t] = now + d]
    /\ access_token' = epoch + 1
    /\ token_lock' = None
    /\ tpc' = [tpc EXCEPT ![t] = "store"]
    /\ UNCHANGED <<now, token_expired_at, ret, posts, sawInvalid,
                   startEpoch, raced, epoch>>
    /\ UNCHANGED nonTokenVars

\* lines 126-129: status 200; self.access_token = data["access_token"]
PostOk(t) ==
    /\ tpc[t] = "post"
    /\ \E d \in 1..MaxLifetime :
          pending' = [pending EXCEPT ![t] = now + d]
    /\ access_token' = epoch + 1
    /\ tpc' = [tpc EXCEPT ![t] = "store"]
    /\ UNCHANGED <<now, token_expired_at, token_lock, ret, posts, sawInvalid,
                   startEpoch, raced, epoch>>
    /\ UNCHANGED nonTokenVars

\* lines 131-135: self.token_expired_at = ...; return self.access_token
StoreExpiry(t) ==
    /\ tpc[t] = "store"
    /\ token_expired_at' = pending[t]
    /\ pending' = [pending EXCEPT ![t] = None]
    /\ ret' = [ret EXCEPT ![t] = access_token]
    /\ token_lock' = None
    /\ epoch' = epoch + 1
    /\ tpc' = [tpc EXCEPT ![t] = "returned"]
    /\ UNCHANGED <<now, access_token, posts, sawInvalid, startEpoch, raced>>
    /\ UNCHANGED nonTokenVars

\* the call is over: its result (or its RuntimeError) is with the caller
TakeResult(t) ==
    /\ tpc[t] \in {"returned", "raised"}
    /\ tpc' = [tpc EXCEPT ![t] = "idle"]
    /\ ret' = [ret EXCEPT ![t] = None]
    /\ posts' = [posts EXCEPT ![t] = 0]
    /\ sawInvalid' = [sawInvalid EXCEPT ![t] = FALSE]
    /\ startEpoch' = [startEpoch EXCEPT ![t] = 0]
    /\ raced' = [raced EXCEPT ![t] = FALSE]
    /\ UNCHANGED <<now, access_token, token_expired_at, token_lock, pending,
                   epoch>>

\* the caller takes the result (or the RuntimeError) and goes on
Finish(t) ==
    /\ TakeResult(t)
    /\ UNCHANGED nonTokenVars

\* the wall clock advances by a minute
Tick ==
    /\ now < MaxTime
    /\ now' = now + 1
    /\ UNCHANGED <<access_token, token_expired_at, token_lock, tpc, pending,
                   ret, posts, sawInvalid, startEpoch, raced, epoch>>
    /\ UNCHANGED nonTokenVars

\* KISClient.__init__
InitToken ==
    /\ now = 0
    /\ access_token = None
    /\ token_expired_at = None
    /\ token_lock = None
    /\ tpc = [t \in Callers |-> "idle"]
    /\ pending = [t \in Callers |-> None]
    /\ ret = [t \in Callers |-> None]
    /\ posts = [t \in Callers |-> 0]
    /\ sawInvalid = [t \in Callers |-> FALSE]
    /\ startEpoch = [t \in Callers |-> 0]
    /\ raced = [t \in Callers |-> FALSE]
    /\ epoch = 0

TokenStep(t) ==
    \/ Call(t)
    \/ Check1(t)
    \/ Ret1(t)
    \/ Acquire(t)
    \/ Recheck(t)
    \/ PostFail(t)
    \/ PostOk(t)
    \/ StoreExpiry(t)
    \/ Finish(t)

\* ------------------------------------------------------ the run gate

\* main.py:41  _kis_lock = asyncio.Semaphore(1)
InitGate ==
    /\ kis_value = 1
    /\ kis_waiters = <<>>
    /\ rpc = [r \in Requests |-> "new"]
    /\ rkind = [r \in Requests |-> "none"]
    /\ auto = "idle"
    /\ autoRuns = 0

\* asyncio.Semaphore.locked(): no permit left, or somebody already waits
locked == kis_value = 0 \/ kis_waiters # <<>>

\* cmd_collect 456-464 / cmd_scan 631-639: permission, date or watchlist
\* check fails and the handler returns before it looks at the gate
Refuse(r, k) ==
    /\ rpc[r] = "new"
    /\ rpc' = [rpc EXCEPT ![r] = "refused"]
    /\ rkind' = [rkind EXCEPT ![r] = k]
    /\ UNCHANGED <<kis_value, kis_waiters, auto, autoRuns>>
    /\ UNCHANGED nonGateVars

\* cmd_collect 466-472 / cmd_scan 641-647: if _kis_lock.locked(): reply and
\* return; otherwise await interaction.response.defer()
Arrive(r, k) ==
    /\ rpc[r] = "new"
    /\ rpc' = [rpc EXCEPT ![r] = IF locked THEN "busy" ELSE "defer"]
    /\ rkind' = [rkind EXCEPT ![r] = k]
    /\ UNCHANGED <<kis_value, kis_waiters, auto, autoRuns>>
    /\ UNCHANGED nonGateVars

\* cmd_collect 473 / cmd_scan 648: defer() has completed; async with _kis_lock
\* takes the permit, or suspends the handler in acquire() when there is none
EnterGate(r) ==
    /\ rpc[r] = "defer"
    /\ IF locked
          THEN /\ kis_waiters' = Append(kis_waiters, r)
               /\ rpc' = [rpc EXCEPT ![r] = "waiting"]
               /\ UNCHANGED kis_value
          ELSE /\ kis_value' = kis_value - 1
               /\ rpc' = [rpc EXCEPT ![r] = "running"]
               /\ UNCHANGED kis_waiters
    /\ UNCHANGED <<rkind, auto, autoRuns>>
    /\ UNCHANGED nonGateVars

\* asyncio.Semaphore: the first waiter is woken by release() and takes the permit
Wake(r) ==
    /\ rpc[r] = "waiting"
    /\ kis_waiters # <<>>
    /\ Head(kis_waiters) = r
    /\ kis_value > 0
    /\ kis_value' = kis_value - 1
    /\ kis_waiters' = Tail(kis_waiters)
    /\ rpc' = [rpc EXCEPT ![r] = "running"]
    /\ UNCHANGED <<rkind, auto, autoRuns>>
    /\ UNCHANGED nonGateVars

\* the permit is given back by a release() that an exception skips
LeaveNoRelease(r, outcome) ==
    /\ rpc[r] = "running"
    /\ kis_value' = IF outcome = "done" THEN kis_value + 1 ELSE kis_value
    /\ rpc' = [rpc EXCEPT ![r] = outcome]
    /\ UNCHANGED <<kis_waiters, rkind, auto, autoRuns>>
    /\ UNCHANGED nonGateVars

\* cmd_collect 474-482: run_collection returns or raises (the except replies);
\* cmd_scan 649-652: _scan_and_send returns or raises; leaving the async with
\* block releases the permit either way
Leave(r, outcome) ==
    /\ rpc[r] = "running"
    /\ kis_value' = kis_value + 1
    /\ rpc' = [rpc EXCEPT ![r] = outcome]
    /\ UNCHANGED <<kis_waiters, rkind, auto, autoRuns>>
    /\ UNCHANGED nonGateVars

\* auto_scan 398-416: the daily loop fires; without a channel or watchlist it
\* returns at once, otherwise it starts scanning (it never looks at _kis_lock)
AutoScanFire(hasWork) ==
    /\ auto = "idle"
    /\ autoRuns < MaxAutoRuns
    /\ autoRuns' = autoRuns + 1
    /\ auto' = IF hasWork THEN "scanning" ELSE "idle"
    /\ UNCHANGED <<kis_value, kis_waiters, rpc, rkind>>
    /\ UNCHANGED nonGateVars

\* auto_scan 414-419: every user's _scan_and_send has returned or been caught
AutoScanDone ==
    /\ auto = "scanning"
    /\ auto' = "idle"
    /\ UNCHANGED <<kis_value, kis_waiters, rpc, rkind, autoRuns>>
    /\ UNCHANGED nonGateVars

GateStep ==
    \/ \E r \in Requests, k \in {"collect", "scan"} : Refuse(r, k)
    \/ \E r \in Requests, k \in {"collect", "scan"} : Arrive(r, k)
    \/ \E r \in Requests : EnterGate(r)
    \/ \E r \in Requests : Wake(r)
    \/ \E r \in Requests, outcome \in {"done", "failed"} : Leave(r, outcome)
    \/ \E hasWork \in BOOLEAN : AutoScanFire(hasWork)
    \/ AutoScanDone

\* ------------------------------------------------- the fetch coordinator

\* where a submitted item can be: waiting for a pool thread, inside
\* _fetch_one / _fetch_financial, finished (d_*) or consumed by as_completed.
\* sleep2, auth2 and request2 are the second API call of _get_financial_data
Stages == {"queued", "sleep", "auth", "request", "sleep2", "auth2",
           "request2", "f_ok", "f_none", "f_err", "l_ok", "l_none", "l_err",
           "d_ok", "d_none", "collected"}

\* no batch has been started
IdleBatch ==
    /\ bpc = "idle"
    /\ bkind = "price"
    /\ total = 0
    /\ stage = [s \in Stages |-> 0]
    /\ results_lock = FALSE
    /\ completed = 0
    /\ results = 0
    /\ dropped = 0
    /\ authFailures = 0

\* items held by a pool thread: picked up, their function not yet returned
Running ==
    stage["sleep"] + stage["auth"] + stage["request"]
        + stage["sleep2"] + stage["auth2"] + stage["request2"]
        + stage["f_ok"] + stage["f_none"] + stage["f_err"]
        + stage["l_ok"] + stage["l_none"] + stage["l_err"]

\* one item goes from stage f to stage t
Move(f, t) == [stage EXCEPT ![f] = @ - 1, ![t] = @ + 1]

\* ThreadPoolExecutor(max_workers=5): a free pool thread takes the next
\* queued item and enters _fetch_one / _fetch_financial (time.sleep(0.05))
DispatchUnbounded ==
    /\ bpc = "running"
    /\ stage["queued"] > 0
    /\ stage' = Move("queued", "sleep")
    /\ UNCHANGED <<bpc, bkind, total, results_lock, completed, results,
                   dropped, authFailures>>
    /\ UNCHANGED <<tokenVars, nonBatchVars>>

Dispatch ==
    /\ bpc = "running"
    /\ stage["queued"] > 0
    /\ Running < max_workers
    /\ stage' = Move("queued", "sleep")
    /\ UNCHANGED <<bpc, bkind, total, results_lock, completed, results,
                   dropped, authFailures>>
    /\ UNCHANGED <<tokenVars, nonBatchVars>>

\* set_header 165-166 (called at 244 / 409 / 434): a valid token goes
\* straight into the request; otherwise the pool thread calls get_access_token
SetHeader(s) ==
    /\ stage[s] > 0
    /\ IF is_token_valid
          THEN /\ stage' = Move(s, IF s = "sleep" THEN "request"
                                                  ELSE "request2")
               /\ UNCHANGED tpc
          ELSE /\ epoch < MaxTokens
               /\ \E t \in Callers :
                     /\ tpc[t] = "idle"
                     /\ \A v \in Callers : v < t => tpc[v] # "idle"
                     /\ tpc' = [tpc EXCEPT ![t] = "check1"]
               /\ stage' = Move(s, IF s = "sleep" THEN "auth" ELSE "auth2")
    /\ UNCHANGED <<bpc, bkind, total, results_lock, completed, results,
                   dropped, authFailures>>
    /\ UNCHANGED <<now, access_token, token_expired_at, token_lock, pending,
                   ret, posts, sawInvalid, startEpoch, raced, epoch>>
    /\ UNCHANGED nonBatchVars

\* get_access_token returned inside set_header: the request is sent
AuthReturned(t, a) ==
    /\ bpc = "running"
    /\ stage[a] > 0
    /\ tpc[t] = "returned"
    /\ TakeResult(t)
    /\ stage' = Move(a, IF a = "auth" THEN "request" ELSE "request2")
    /\ UNCHANGED <<bpc, bkind, total, results_lock, completed, results,
                   dropped, authFailures>>
    /\ UNCHANGED nonBatchVars

\* get_access_token raised RuntimeError inside set_header. In _fetch_one the
\* call is inside the try (667) and lands in except Exception (693); in
\* _get_financial_data it is caught at 424 (at 452 in the second call) and
\* the function carries on with time.sleep(0.3) (with return result)
AuthRaised(t, a) ==
    /\ bpc = "running"
    /\ stage[a] > 0
    /\ tpc[t] = "raised"
    /\ TakeResult(t)
    /\ stage' = Move(a, CASE bkind = "price" -> "f_err"
                          [] a = "auth" -> "sleep2"
                          [] OTHER -> "f_ok")
    /\ dropped' = IF bkind = "price" THEN dropped + 1 ELSE dropped
    /\ authFailures' = authFailures + 1
    /\ UNCHANGED <<bpc, bkind, total, results_lock, completed, results>>
    /\ UNCHANGED nonBatchVars

\* _get_period_price 254-278 returns prices ("ok"), returns (None, None)
\* ("none") or raises ("err"); the first request of _get_financial_data
\* (415-425) is followed by time.sleep(0.3) whatever the response was
FetchReturn(o) ==
    /\ stage["request"] > 0
    /\ bkind = "fin" => o = "ok"
    /\ stage' = Move("request", CASE bkind = "fin" -> "sleep2"
                                  [] o = "ok" -> "f_ok"
                                  [] o = "none" -> "f_none"
                                  [] OTHER -> "f_err")
    /\ dropped' = IF o = "ok" THEN dropped ELSE dropped + 1
    /\ UNCHANGED <<bpc, bkind, total, results_lock, completed, results,
                   authFailures>>
    /\ UNCHANGED <<tokenVars, nonBatchVars>>

\* _get_financial_data 440-455: the second request is answered and the
\* function returns its dict; _fetch_financial 543-545 fills the item in
FinancialReturn ==
    /\ stage["request2"] > 0
    /\ stage' = Move("request2", "f_ok")
    /\ UNCHANGED <<bpc, bkind, total, results_lock, completed, results,
                   dropped, authFailures>>
    /\ UNCHANGED <<tokenVars, nonBatchVars>>

\* 670 / 694 / 546: with results_lock:  (blocks until the lock is free)
LockResults(o) ==
    /\ stage[o] > 0
    /\ ~results_lock
    /\ results_lock' = TRUE
    /\ stage' = Move(o, CASE o = "f_ok" -> "l_ok"
                          [] o = "f_none" -> "l_none"
                          [] OTHER -> "l_err")
    /\ UNCHANGED <<bpc, bkind, total, completed, results, dropped,
                   authFailures>>
    /\ UNCHANGED <<tokenVars, nonBatchVars>>

\* 671-692: completed[0] += 1, the lock is released and the function returns
\* its record, or None for missing data
CountTry(o) ==
    /\ stage[o] > 0
    /\ completed' = completed + 1
    /\ results_lock' = FALSE
    /\ stage' = Move(o, IF o = "l_ok" THEN "d_ok" ELSE "d_none")
    /\ UNCHANGED <<bpc, bkind, total, results, dropped, authFailures>>
    /\ UNCHANGED <<tokenVars, nonBatchVars>>

\* 693-698: the except branch counts the unit too and returns None
CountExceptSkipped ==
    /\ stage["l_err"] > 0
    /\ results_lock' = FALSE
    /\ stage' = Move("l_err", "d_none")
    /\ UNCHANGED <<bpc, bkind, total, completed, results, dropped,
                   authFailures>>
    /\ UNCHANGED <<tokenVars, nonBatchVars>>

CountExcept ==
    /\ stage["l_err"] > 0
    /\ completed' = completed + 1
    /\ results_lock' = FALSE
    /\ stage' = Move("l_err", "d_none")
    /\ UNCHANGED <<bpc, bkind, total, results, dropped, authFailures>>
    /\ UNCHANGED <<tokenVars, nonBatchVars>>

\* 702-705 (555-556): as_completed yields a finished future; a result that is
\* not None is appended to results
Collect(o) ==
    /\ bpc = "running"
    /\ stage[o] > 0
    /\ results' = IF o = "d_ok" /\ bkind = "price"
                     THEN results + 1 ELSE results
    /\ stage' = Move(o, "collected")
    /\ UNCHANGED <<bpc, bkind, total, results_lock, completed, dropped,
                   authFailures>>
    /\ UNCHANGED <<tokenVars, nonBatchVars>>

\* every future has been consumed: the with block of the executor is left
AllCollected == stage["collected"] = total

\* ------------------------------------- run_collection and the price store

Dates == 1..MaxDate

\* DatabaseManager._create_tables on a new file; run_collection not called
IdleCollect ==
    /\ wf = "idle"
    /\ wferr = "none"
    /\ start_date = 0
    /\ end_date = 0
    /\ kospi_all = 0
    /\ kosdaq_all = 0
    /\ prices = {}
    /\ daily_prices = {}

\* DatabaseManager.has_data: SELECT 1 FROM daily_prices WHERE date BETWEEN ?
has_data(s, e) == \E r \in daily_prices : s <= r.date /\ r.date <= e

\* DatabaseManager.save_prices: INSERT OR REPLACE INTO prices, one row per
\* record, keyed by (start_date, end_date, stock_code); rows counts them
save_prices(table, n, s, e, market) ==
    {r \in table : ~(r.start_date = s /\ r.end_date = e /\ r.market = market)}
        \cup {[start_date |-> s, end_date |-> e, market |-> market, rows |-> n]}

\* main.py 203 -> kis_client.py 649: run_collection enters
\* get_top_growth_stocks("J"), which begins with self.get_access_token()
RunCollection(s, e) ==
    /\ wf = "idle"
    /\ wf' = "j_token"
    /\ start_date' = s
    /\ end_date' = e
    /\ tpc' = [tpc EXCEPT ![1] = "check1"]
    /\ UNCHANGED <<wferr, kospi_all, kosdaq_all, prices, daily_prices>>
    /\ UNCHANGED <<now, access_token, token_expired_at, token_lock, pending,
                   ret, posts, sawInvalid, startEpoch, raced, epoch>>
    /\ UNCHANGED <<gateVars, batchVars, dbVars, appVars>>

\* 649-701: the token is there, _download_stock_list returns n instruments
\* and every one of them is submitted to the pool
TokenReady(n) ==
    /\ wf \in {"j_token", "q_token"}
    /\ tpc[1] = "returned"
    /\ TakeResult(1)
    /\ wf' = IF wf = "j_token" THEN "j_batch" ELSE "q_batch"
    /\ bpc' = "running"
    /\ bkind' = "price"
    /\ total' = n
    /\ stage' = [x \in Stages |-> IF x = "queued" THEN n ELSE 0]
    /\ results_lock' = FALSE
    /\ completed' = 0
    /\ results' = 0
    /\ dropped' = 0
    /\ UNCHANGED authFailures
    /\ UNCHANGED <<wferr, start_date, end_date, kospi_all, kosdaq_all, prices,
                   daily_prices>>
    /\ UNCHANGED <<gateVars, dbVars, appVars>>

\* 649 / 534: the opening get_access_token raised; nothing catches it on the
\* way out of run_collection
TokenFailed ==
    /\ wf \in {"j_token", "q_token", "f_token"}
    /\ tpc[1] = "raised"
    /\ TakeResult(1)
    /\ wf' = "raised"
    /\ wferr' = "auth"
    /\ authFailures' = authFailures + 1
    /\ UNCHANGED <<bpc, bkind, total, stage, results_lock, completed, results,
                   dropped>>
    /\ UNCHANGED <<start_date, end_date, kospi_all, kosdaq_all, prices,
                   daily_prices>>
    /\ UNCHANGED <<gateVars, dbVars, appVars>>

\* main.py 203-207: the KOSPI frame is back, the KOSDAQ call begins
AfterKospi ==
    /\ wf = "j_batch"
    /\ bpc = "returned"
    /\ kospi_all' = results
    /\ wf' = "q_token"
    /\ bpc' = "idle"
    /\ tpc' = [tpc EXCEPT ![1] = "check1"]
    /\ UNCHANGED <<bkind, total, stage, results_lock, completed, results,
                   dropped, authFailures>>
    /\ UNCHANGED <<wferr, start_date, end_date, kosdaq_all, prices,
                   daily_prices>>
    /\ UNCHANGED <<now, access_token, token_expired_at, token_lock, pending,
                   ret, posts, sawInvalid, startEpoch, raced, epoch>>
    /\ UNCHANGED <<gateVars, dbVars, appVars>>

\* main.py 207-236 -> kis_client.py 534: both frames empty raises ValueError;
\* otherwise each non-empty frame goes to db.save_prices and
\* add_financial_data begins with self.get_access_token()
AfterKosdaq ==
    /\ wf = "q_batch"
    /\ bpc = "returned"
    /\ kosdaq_all' = results
    /\ bpc' = "idle"
    /\ IF kospi_all = 0 /\ results = 0
          THEN /\ wf' = "raised"
               /\ wferr' = "empty"
               /\ UNCHANGED <<prices, tpc>>
          ELSE /\ wf' = "f_token"
               /\ prices' =
                     LET withJ == IF kospi_all = 0 THEN prices
                                  ELSE save_prices(prices, kospi_all,
                                                   start_date, end_date, "J")
                     IN  IF results = 0 THEN withJ
                         ELSE save_prices(withJ, results,
                                          start_date, end_date, "Q")
               /\ tpc' = [tpc EXCEPT ![1] = "check1"]
               /\ UNCHANGED wferr
    /\ UNCHANGED <<bkind, total, stage, results_lock, completed, results,
                   dropped, authFailures>>
    /\ UNCHANGED <<start_date, end_date, kospi_all, daily_prices>>
    /\ UNCHANGED <<now, access_token, token_expired_at, token_lock, pending,
                   ret, posts, sawInvalid, startEpoch, raced, epoch>>
    /\ UNCHANGED <<gateVars, dbVars, appVars>>

\* kis_client.py 534-554: the token is there; one _fetch_financial per
\* record of unique_records is submitted to the pool
FinancialReady ==
    /\ wf = "f_token"
    /\ tpc[1] = "returned"
    /\ TakeResult(1)
    /\ wf' = "f_batch"
    /\ bpc' = "running"
    /\ bkind' = "fin"
    /\ total' = kospi_all + kosdaq_all
    /\ stage' = [x \in Stages |->
                    IF x = "queued" THEN kospi_all + kosdaq_all ELSE 0]
    /\ results_lock' = FALSE
    /\ completed' = 0
    /\ results' = 0
    /\ dropped' = 0
    /\ UNCHANGED authFailures
    /\ UNCHANGED <<wferr, start_date, end_date, kospi_all, kosdaq_all, prices,
                   daily_prices>>
    /\ UNCHANGED <<gateVars, dbVars, appVars>>

\* main.py 236-240: db.save_financials, then return price_count, len(...)
AfterFinancial ==
    /\ wf = "f_batch"
    /\ bpc = "returned"
    /\ wf' = "returned"
    /\ bpc' = "idle"
    /\ UNCHANGED <<bkind, total, stage, results_lock, completed, results,
                   dropped, authFailures>>
    /\ UNCHANGED <<wferr, start_date, end_date, kospi_all, kosdaq_all, prices,
                   daily_prices>>
    /\ UNCHANGED <<tokenVars, gateVars, dbVars, appVars>>

\* ------------------------------------------------- the daily price store

Codes == 1..NumCodes

\* the days of 2024 that precede each month, and the whole year
YearDays == <<0, 31, 60, 91, 121, 152, 182, 213, 244, 274, 305, 335, 366>>

\* days of the year that precede month m
DaysBefore(m) == YearDays[m]

\* datetime.strptime(s, "%Y%m%d"): the day of the year of the date YYYYMMDD
strptime(s) == DaysBefore((s \div 100) % 100) + (s % 100)

\* datetime.strftime("%Y%m%d"): the date YYYYMMDD of a day of the year
strftime(o) ==
    LET m == CHOOSE k \in 1..12 : DaysBefore(k) < o /\ o <= DaysBefore(k + 1)
    IN  20240000 + m * 100 + (o - DaysBefore(m))

\* the sampled trading days, as the YYYYMMDD values column 날짜 holds
Days == {strftime(FirstDay + DayStride * k) : k \in 0..MaxStep}

WriteDays == {strftime(FirstDay + DayStride * k) : k \in 0..MaxWriteStep}

\* the market an instrument is listed on
MarketOf(c) == IF c % 2 = 1 THEN "KOSPI" ELSE "KOSDAQ"

\* a record as the callers of save_daily_prices build it; one that lacks the
\* key 시장 and one whose 종가 is None are the two ill-formed kinds
Record(d, c, x) == [date |-> d, code |-> c, market |-> MarketOf(c), close |-> x]

NoMarket(d, c, x) == [date |-> d, code |-> c, close |-> x]

\* the records a call can be given on the days of the set days: closes 1 and
\* MaxClose, a None close, a record without 시장
RecordUniverse(days) ==
    {Record(d, c, x) : d \in days, c \in Codes, x \in {1, MaxClose, NULL}}
        \cup {NoMarket(d, c, MaxClose) : d \in days, c \in Codes}

\* the lists of at most MaxRecords records of a set
Batches(universe) == UNION {[1..n -> universe] : n \in 0..MaxRecords}

\* UNIQUE(날짜, 종목코드)
SameKey(r, q) == r.date = q.date /\ r.code = q.code

\* INSERT OR REPLACE on a table declared UNIQUE(종목코드): every earlier row of
\* the instrument is deleted
insert_or_replace_code(table, row) ==
    {r \in table : r.code # row.code} \cup {row}

\* a plain INSERT that leaves the earlier row of the key in place
insert_keep(table, row) == table \cup {row}

\* INSERT OR REPLACE INTO daily_prices: the row with the same key is deleted
\* and the new row inserted
insert_or_replace(table, row) ==
    {r \in table : ~SameKey(r, row)} \cup {row}

RECURSIVE executemany(_, _)
\* cursor.executemany: the statement is executed for every row in turn
executemany(table, rows) ==
    IF rows = <<>> THEN table
    ELSE executemany(insert_or_replace(table, Head(rows)), Tail(rows))

\* no call of save_daily_prices, no query and no analysis has been made
IdleStore ==
    /\ spc = "idle"
    /\ records = <<>>
    /\ cursor = 0
    /\ txn = {}
    /\ snapshot = {}
    /\ lastWrite = {}
    /\ prevBatch = <<>>
    /\ saves = 0

IdleAnalysis ==
    /\ answer = [fn |-> "none"]
    /\ df = <<>>
    /\ verdict = [signal |-> FALSE, reason |-> "none"]

Saving == spc \in {"executemany", "committed"}

\* 117-118: if not records: return
SaveNothing ==
    /\ ~Saving
    /\ saves < MaxSaves
    /\ saves' = saves + 1
    /\ records' = <<>>
    /\ spc' = "returned"
    /\ cursor' = 0
    /\ snapshot' = daily_prices
    /\ UNCHANGED <<daily_prices, txn, lastWrite, prevBatch>>
    /\ UNCHANGED <<nonDbVars, analysisVars>>

\* 120-133: the rows are built from the records; r["시장"] of a record without
\* that key raises KeyError before the connection is opened
SaveKeyError(recs) ==
    /\ ~Saving
    /\ saves < MaxSaves
    /\ saves' = saves + 1
    /\ recs # <<>>
    /\ \E i \in 1..Len(recs) : "market" \notin DOMAIN recs[i]
    /\ records' = recs
    /\ spc' = "raised"
    /\ cursor' = 0
    /\ snapshot' = daily_prices
    /\ UNCHANGED <<daily_prices, txn, lastWrite, prevBatch>>
    /\ UNCHANGED <<nonDbVars, analysisVars>>

\* 135-136: conn = self._get_conn(); the connection sees the committed table
SaveConnect(recs) ==
    /\ ~Saving
    /\ saves < MaxSaves
    /\ saves' = saves + 1
    /\ recs # <<>>
    /\ \A i \in 1..Len(recs) : "market" \in DOMAIN recs[i]
    /\ records' = recs
    /\ spc' = "executemany"
    /\ cursor' = 0
    /\ txn' = daily_prices
    /\ snapshot' = daily_prices
    /\ UNCHANGED <<daily_prices, lastWrite, prevBatch>>
    /\ UNCHANGED <<nonDbVars, analysisVars>>

\* the same row written by a connection in autocommit mode
ExecuteRowAutocommit ==
    /\ spc = "executemany"
    /\ cursor < Len(records)
    /\ records[cursor + 1].close # NULL
    /\ txn' = insert_or_replace(txn, records[cursor + 1])
    /\ daily_prices' = insert_or_replace(txn, records[cursor + 1])
    /\ cursor' = cursor + 1
    /\ UNCHANGED <<spc, records, snapshot, lastWrite, prevBatch, saves>>
    /\ UNCHANGED <<nonDbVars, analysisVars>>

\* 137-142: one row of executemany inside the connection's open transaction
ExecuteRow ==
    /\ spc = "executemany"
    /\ cursor < Len(records)
    /\ records[cursor + 1].close # NULL
    /\ txn' = insert_or_replace(txn, records[cursor + 1])
    /\ cursor' = cursor + 1
    /\ UNCHANGED <<daily_prices, spc, records, snapshot, lastWrite, prevBatch,
                   saves>>
    /\ UNCHANGED <<nonDbVars, analysisVars>>

\* 137-146: a None in 종가 violates NOT NULL, the statement raises
\* IntegrityError, and finally: conn.close() drops the open transaction
ExecuteRaises ==
    /\ spc = "executemany"
    /\ cursor < Len(records)
    /\ records[cursor + 1].close = NULL
    /\ spc' = "raised"
    /\ txn' = daily_prices
    /\ UNCHANGED <<daily_prices, records, cursor, snapshot, lastWrite, prevBatch,
                   saves>>
    /\ UNCHANGED <<nonDbVars, analysisVars>>

\* 143: conn.commit()
Commit ==
    /\ spc = "executemany"
    /\ cursor = Len(records)
    /\ daily_prices' = txn
    /\ spc' = "committed"
    /\ lastWrite' =
           {r \in lastWrite : \A i \in 1..Len(records) : ~SameKey(r, records[i])}
               \cup {records[i] : i \in {j \in 1..Len(records) :
                         \A k \in (j + 1)..Len(records) :
                             ~SameKey(records[j], records[k])}}
    /\ UNCHANGED <<records, cursor, txn, snapshot, prevBatch, saves>>
    /\ UNCHANGED <<nonDbVars, analysisVars>>

\* 145-146: finally: conn.close(), and the call returns
SaveReturn ==
    /\ spc = "committed"
    /\ spc' = "returned"
    /\ prevBatch' = records
    /\ UNCHANGED <<daily_prices, records, cursor, txn, snapshot, lastWrite,
                   saves>>
    /\ UNCHANGED <<nonDbVars, analysisVars>>

\* ------------------------------------------------------ get_cached_stock_codes

\* MIN(날짜) / MAX(날짜) of the rows of one group
MIN(rows) == CHOOSE d \in {r.date : r \in rows} : \A r \in rows : d <= r.date

MAX(rows) == CHOOSE d \in {r.date : r \in rows} : \A r \in rows : d >= r.date

\* the thresholds computed on the digits of the date, without the calendar
thresholds_digits(s, e) ==
    LET start_threshold == s + tolerance
        end_threshold == e - tolerance
    IN  IF end_threshold <= start_threshold
        THEN <<s, e>>
        ELSE <<start_threshold, end_threshold>>

\* 163-171: start + 7 days and end - 7 days, or the exact dates when the
\* range is too short for the two thresholds to be apart
thresholds(s, e) ==
    LET start_threshold == strftime(strptime(s) + tolerance)
        end_threshold == strftime(strptime(e) - tolerance)
    IN  IF end_threshold <= start_threshold
        THEN <<s, e>>
        ELSE <<start_threshold, end_threshold>>

\* the query with HAVING MIN(날짜) <= ? OR MAX(날짜) >= ?
get_cached_stock_codes_either(table, s, e) ==
    LET th == thresholds(s, e)
        group(c) == {r \in table : r.code = c}
    IN  {c \in {r.code : r \in table} :
             MIN(group(c)) <= th[1] \/ MAX(group(c)) >= th[2]}

\* 173-186: SELECT 종목코드 FROM daily_prices GROUP BY 종목코드
\*          HAVING MIN(날짜) <= ? AND MAX(날짜) >= ?
get_cached_stock_codes(table, s, e) ==
    LET th == thresholds(s, e)
        group(c) == {r \in table : r.code = c}
    IN  {c \in {r.code : r \in table} :
             MIN(group(c)) <= th[1] /\ MAX(group(c)) >= th[2]}

\* the rows one instrument can have when a query is made: at most MaxRowsPer
\* days, one close per day
RowsOf(c, closes) ==
    UNION {{{Record(d, c, f[d]) : d \in ds} : f \in [ds -> closes]} :
               ds \in {x \in SUBSET Days : Cardinality(x) <= MaxRowsPer}}

\* the tables a query can find: rows on the days of the set days only
Stores(days, closes) ==
    LET rows(c) == {t \in RowsOf(c, closes) : \A r \in t : r.date \in days}
        fam == [Codes -> UNION {rows(c) : c \in Codes}]
    IN  {UNION {f[c] : c \in Codes} :
             f \in {g \in fam : \A c \in Codes : \A r \in g[c] : r.code = c}}

\* a call of get_cached_stock_codes(s, e)
QueryCached(s, e) ==
    /\ answer' = [fn |-> "get_cached_stock_codes", args |-> <<s, e>>,
                  after |-> saves,
                  out |-> get_cached_stock_codes(daily_prices, s, e)]
    /\ UNCHANGED <<daily_prices, storeVars, df, verdict>>
    /\ UNCHANGED nonDbVars

\* a call of save_daily_prices that commits: rows that are stored already
\* are written again
SaveAgain(recs) ==
    /\ ~Saving
    /\ saves < MaxSaves
    /\ recs # <<>>
    /\ \A i \in 1..Len(recs) : recs[i] \in daily_prices
    /\ saves' = saves + 1
    /\ spc' = "returned"
    /\ daily_prices' = executemany(daily_prices, recs)
    /\ lastWrite' = daily_prices'
    /\ UNCHANGED <<records, cursor, txn, snapshot, prevBatch>>
    /\ UNCHANGED <<nonDbVars, analysisVars>>

\* --------------------------------------------- get_prices, get_prices_by_codes

RECURSIVE scan(_)
\* the rows a SELECT without ORDER BY returns: SQLite answers the range on
\* 날짜 from the index of UNIQUE(날짜, 종목코드), in the order of that index
scan(rows) ==
    IF rows = {} THEN <<>>
    ELSE LET r == CHOOSE x \in rows : \A y \in rows :
                      x.date < y.date \/ (x.date = y.date /\ x.code <= y.code)
         IN  <<r>> \o scan(rows \ {r})

\* 204-217: WHERE 날짜 BETWEEN ? AND ? [AND 시장 = ?]; "" stands for market=None
select(table, s, e, market) ==
    scan({r \in table : s <= r.date /\ r.date <= e
                        /\ (market # "" => r.market = market)})

\* 273-284: WHERE 날짜 BETWEEN ? AND ? AND 종목코드 IN (...)
select_in(table, s, e, stock_codes) ==
    scan({r \in table : s <= r.date /\ r.date <= e /\ r.code \in stock_codes})

RECURSIVE grouping(_)
\* 222-232 (288-298): stocks, a dict in insertion order: one entry per
\* instrument in the order of its first row, its (날짜, 종가) pairs appended
grouping(rows) ==
    IF rows = <<>> THEN <<>>
    ELSE LET stocks == grouping(SubSeq(rows, 1, Len(rows) - 1))
             row == rows[Len(rows)]
             at == {i \in 1..Len(stocks) : stocks[i].code = row.code}
         IN  IF at = {}
             THEN Append(stocks, [code |-> row.code, market |-> row.market,
                                  days |-> <<<<row.date, row.close>>>>])
             ELSE [i \in 1..Len(stocks) |->
                      IF i \in at
                      THEN [stocks[i] EXCEPT
                               !.days = Append(@, <<row.date, row.close>>)]
                      ELSE stocks[i]]

RECURSIVE sorted_pairs(_)
sorted_pairs(pairs) ==
    IF pairs = {} THEN <<>>
    ELSE LET p == CHOOSE x \in pairs : \A y \in pairs :
                      x[1] < y[1] \/ (x[1] = y[1] /\ x[2] <= y[2])
         IN  <<p>> \o sorted_pairs(pairs \ {p})

\* 236 (302): sorted(data["days"]), the tuples in ascending order
sorted(days) == sorted_pairs({days[i] : i \in 1..Len(days)})

\* the quotient cut off after the second decimal instead of rounded
return_rate_cut(start_price, end_price) ==
    IF end_price >= start_price
    THEN ((end_price - start_price) * 10000) \div start_price
    ELSE 0 - (((start_price - end_price) * 10000) \div start_price)

\* 243 (309): round((end_price - start_price) / start_price * 100, 2), in
\* hundredths of a percent; an exact half goes to the even neighbour
return_rate(start_price, end_price) ==
    LET num == (end_price - start_price) * 10000
        fl == num \div start_price
        rem == num - fl * start_price
    IN  IF 2 * rem < start_price THEN fl
        ELSE IF 2 * rem > start_price THEN fl + 1
        ELSE IF fl % 2 = 0 THEN fl ELSE fl + 1

RECURSIVE compute(_)
\* 234-251 (300-317): one result per instrument that has two days or more
\* and a start price that is not zero
compute(stocks) ==
    IF stocks = <<>> THEN <<>>
    ELSE LET res == compute(SubSeq(stocks, 1, Len(stocks) - 1))
             data == stocks[Len(stocks)]
             days == sorted(data.days)
             start_price == days[1][2]
             end_price == days[Len(days)][2]
         IN  IF Len(days) < 2 THEN res
             ELSE IF start_price = 0 THEN res
             ELSE Append(res,
                         [code |-> data.code, market |-> data.market,
                          start_price |-> start_price, end_price |-> end_price,
                          return_rate |-> return_rate(start_price, end_price)])

\* x put into a list that is in descending order, after its equals
insert_after(list, x) ==
    LET k == Cardinality({i \in 1..Len(list) : list[i].return_rate >= x.return_rate})
    IN  SubSeq(list, 1, k) \o <<x>> \o SubSeq(list, k + 1, Len(list))

RECURSIVE sort_unstable(_)
\* a descending sort that reverses the order of equal keys
sort_unstable(res) ==
    IF res = <<>> THEN <<>>
    ELSE LET list == sort_unstable(SubSeq(res, 1, Len(res) - 1))
             x == res[Len(res)]
             k == Cardinality({i \in 1..Len(list) :
                                  list[i].return_rate > x.return_rate})
         IN  SubSeq(list, 1, k) \o <<x>> \o SubSeq(list, k + 1, Len(list))

RECURSIVE sort_ascending(_)
\* results.sort(key=...) without reverse=True
sort_ascending(res) ==
    IF res = <<>> THEN <<>>
    ELSE LET list == sort_ascending(SubSeq(res, 1, Len(res) - 1))
             x == res[Len(res)]
             k == Cardinality({i \in 1..Len(list) :
                                  list[i].return_rate <= x.return_rate})
         IN  SubSeq(list, 1, k) \o <<x>> \o SubSeq(list, k + 1, Len(list))

RECURSIVE sort(_)
\* 253 (319): results.sort(key=lambda x: x["수익률(%)"], reverse=True); list.sort
\* is stable, with reverse=True too
sort(res) ==
    IF res = <<>> THEN <<>>
    ELSE insert_after(sort(SubSeq(res, 1, Len(res) - 1)),
                      res[Len(res)])

\* results[:top_n]
slice(res, top_n) ==
    IF top_n >= 0
    THEN SubSeq(res, 1, IF top_n < Len(res) THEN top_n ELSE Len(res))
    ELSE SubSeq(res, 1, IF Len(res) + top_n > 0
                            THEN Len(res) + top_n ELSE 0)

\* 188-256; top_n = None and top_n = 0 both fail the test "if top_n:"
get_prices(table, s, e, market, top_n) ==
    LET res == sort(compute(grouping(select(table, s, e, market))))
    IN  IF top_n # None THEN slice(res, top_n) ELSE res

\* the same function with a sort that does not keep the order of equals
get_prices_by_codes_unstable(table, s, e, stock_codes) ==
    IF stock_codes = {} THEN <<>>
    ELSE sort_unstable(compute(grouping(select_in(table, s, e, stock_codes))))

\* 258-320
get_prices_by_codes(table, s, e, stock_codes) ==
    IF stock_codes = {} THEN <<>>
    ELSE sort(compute(grouping(select_in(table, s, e, stock_codes))))

RankDays == {strftime(FirstDay + DayStride * k) : k \in 0..MaxRankStep}

Markets == {"", "KOSPI", "KOSDAQ"}

\* a call of get_prices(s, e, market, top_n)
QueryPrices(s, e, market, top_n) ==
    /\ answer.fn = "none"
    /\ answer' = [fn |-> "get_prices", args |-> <<s, e, market, top_n>>,
                  after |-> saves,
                  out |-> get_prices(daily_prices, s, e, market, top_n)]
    /\ UNCHANGED <<daily_prices, storeVars, df, verdict>>
    /\ UNCHANGED nonDbVars

\* a call of get_prices_by_codes(s, e, stock_codes)
QueryPricesByCodes(s, e, stock_codes) ==
    /\ answer.fn = "none"
    /\ answer' = [fn |-> "get_prices_by_codes", args |-> <<s, e, stock_codes>>,
                  after |-> saves,
                  out |-> get_prices_by_codes(daily_prices, s, e, stock_codes)]
    /\ UNCHANGED <<daily_prices, storeVars, df, verdict>>
    /\ UNCHANGED nonDbVars

\* ---------------------------------------------------------- check_golden_cross

\* the closes of a candle: two prices, and a close that did not parse
Closes == {1, MaxClose, NaN}

\* the frames fetch_minute_ohlcv returns, as their column close, oldest first
Frames(closes) == UNION {[1..n -> closes] : n \in 0..MaxCandles}

RECURSIVE window_sum(_, _, _)
\* the sum of the w closes that end at candle i
window_sum(closes, i, w) ==
    IF w = 0 THEN 0 ELSE closes[i] + window_sum(closes, i - 1, w - 1)

\* rolling(window=w).mean() at candle i is NaN when the window reaches
\* before the first candle or holds a NaN
isna(closes, i, w) ==
    i < w \/ \E k \in (i - w + 1)..i : closes[k] = NaN

\* ma3 <= ma5 at candle i, the two means compared as fractions
ma3_le_ma5(closes, i) ==
    window5 * window_sum(closes, i, window3)
        <= window3 * window_sum(closes, i, window5)

\* the verdict when the previous candle is tested with ma3 < ma5
check_golden_cross_strict(closes) ==
    LET latest == Len(closes)
        prev == Len(closes) - 1
        prev_below == ma3_le_ma5(closes, prev)
                      /\ window5 * window_sum(closes, prev, window3)
                             # window3 * window_sum(closes, prev, window5)
        curr_above == ~ma3_le_ma5(closes, latest)
    IN  IF Len(closes) < min_candles
        THEN [signal |-> FALSE, reason |-> "insufficient candles"]
        ELSE IF isna(closes, latest, window3) \/ isna(closes, latest, window5)
        THEN [signal |-> FALSE, reason |-> "moving average undefined at latest"]
        ELSE IF isna(closes, prev, window3) \/ isna(closes, prev, window5)
        THEN [signal |-> FALSE, reason |-> "moving average undefined at previous"]
        ELSE IF prev_below /\ curr_above
        THEN [signal |-> TRUE, reason |-> "crossover detected"]
        ELSE IF ~prev_below
        THEN [signal |-> FALSE, reason |-> "already above"]
        ELSE [signal |-> FALSE, reason |-> "still below"]

\* the verdict when the test of the length falls through to the means
check_golden_cross_unguarded(closes) ==
    LET latest == Len(closes)
        prev == Len(closes) - 1
    IN  IF isna(closes, latest, window3) \/ isna(closes, latest, window5)
        THEN [signal |-> FALSE, reason |-> ""]
        ELSE IF isna(closes, prev, window3) \/ isna(closes, prev, window5)
        THEN [signal |-> FALSE, reason |-> "moving average undefined at previous"]
        ELSE IF ma3_le_ma5(closes, prev) /\ ~ma3_le_ma5(closes, latest)
        THEN [signal |-> TRUE, reason |-> "crossover detected"]
        ELSE IF ~ma3_le_ma5(closes, prev)
        THEN [signal |-> FALSE, reason |-> "already above"]
        ELSE [signal |-> FALSE, reason |-> "still below"]

\* the verdict when five candles are taken to be enough
check_golden_cross_five(closes) ==
    LET latest == Len(closes)
        prev == Len(closes) - 1
    IN  IF Len(closes) < window5
        THEN [signal |-> FALSE, reason |-> "insufficient candles"]
        ELSE IF isna(closes, latest, window3) \/ isna(closes, latest, window5)
        THEN [signal |-> FALSE, reason |-> "moving average undefined at latest"]
        ELSE IF isna(closes, prev, window3) \/ isna(closes, prev, window5)
        THEN [signal |-> FALSE, reason |-> "moving average undefined at previous"]
        ELSE IF ma3_le_ma5(closes, prev) /\ ~ma3_le_ma5(closes, latest)
        THEN [signal |-> TRUE, reason |-> "crossover detected"]
        ELSE IF ~ma3_le_ma5(closes, prev)
        THEN [signal |-> FALSE, reason |-> "already above"]
        ELSE [signal |-> FALSE, reason |-> "still below"]

\* the verdict when the last candle is tested with ma3 < ma5
check_golden_cross_falling(closes) ==
    LET latest == Len(closes)
        prev == Len(closes) - 1
        prev_below == ma3_le_ma5(closes, prev)
        curr_above == window5 * window_sum(closes, latest, window3)
                          < window3 * window_sum(closes, latest, window5)
    IN  IF Len(closes) < min_candles
        THEN [signal |-> FALSE, reason |-> "insufficient candles"]
        ELSE IF isna(closes, latest, window3) \/ isna(closes, latest, window5)
        THEN [signal |-> FALSE, reason |-> "moving average undefined at latest"]
        ELSE IF isna(closes, prev, window3) \/ isna(closes, prev, window5)
        THEN [signal |-> FALSE, reason |-> "moving average undefined at previous"]
        ELSE IF prev_below /\ curr_above
        THEN [signal |-> TRUE, reason |-> "crossover detected"]
        ELSE IF ~prev_below
        THEN [signal |-> FALSE, reason |-> "already above"]
        ELSE [signal |-> FALSE, reason |-> "still below"]

\* the verdict when the candle before the last is not looked at
check_golden_cross_level(closes) ==
    LET latest == Len(closes)
        prev == Len(closes) - 1
        curr_above == ~ma3_le_ma5(closes, latest)
    IN  IF Len(closes) < min_candles
        THEN [signal |-> FALSE, reason |-> "insufficient candles"]
        ELSE IF isna(closes, latest, window3) \/ isna(closes, latest, window5)
        THEN [signal |-> FALSE, reason |-> "moving average undefined at latest"]
        ELSE IF isna(closes, prev, window3) \/ isna(closes, prev, window5)
        THEN [signal |-> FALSE, reason |-> "moving average undefined at previous"]
        ELSE IF curr_above
        THEN [signal |-> TRUE, reason |-> "crossover detected"]
        ELSE [signal |-> FALSE, reason |-> "still below"]

\* 119-176; the six reasons stand for the six strings of the source:
\*   "insufficient candles"                 데이터 부족 (최소 6개 캔들 필요)
\*   "moving average undefined at latest"   이동평균 계산 불가
\*   "moving average undefined at previous" 이전 캔들 이동평균 계산 불가
\*   "crossover detected"                   MA3이 MA5를 상향 돌파 (골든크로스)
\*   "already above"                        이전 캔들에서 이미 MA3 > MA5
\*   "still below"                          MA3이 아직 MA5 하회
check_golden_cross(closes) ==
    LET latest == Len(closes)
        prev == Len(closes) - 1
        prev_below == ma3_le_ma5(closes, prev)
        curr_above == ~ma3_le_ma5(closes, latest)
    IN  IF Len(closes) < min_candles
        THEN [signal |-> FALSE, reason |-> "insufficient candles"]
        ELSE IF isna(closes, latest, window3) \/ isna(closes, latest, window5)
        THEN [signal |-> FALSE, reason |-> "moving average undefined at latest"]
        ELSE IF isna(closes, prev, window3) \/ isna(closes, prev, window5)
        THEN [signal |-> FALSE, reason |-> "moving average undefined at previous"]
        ELSE IF prev_below /\ curr_above
        THEN [signal |-> TRUE, reason |-> "crossover detected"]
        ELSE IF ~prev_below
        THEN [signal |-> FALSE, reason |-> "already above"]
        ELSE [signal |-> FALSE, reason |-> "still below"]

\* main.py 332: result = check_golden_cross(df)
CheckGoldenCross ==
    /\ verdict.reason = "none"
    /\ verdict' = check_golden_cross(df)
    /\ UNCHANGED <<daily_prices, storeVars, answer, df>>
    /\ UNCHANGED nonDbVars

\* main.py 329-332 at the next scan of the instrument: fetch_minute_ohlcv
\* returns the frame with one further candle (fewer than num_candles rows,
\* so that tail() drops none) and check_golden_cross is applied to it
NextCandle(close) ==
    /\ verdict.reason # "none"
    /\ Len(df) <= MaxCandles
    /\ df' = Append(df, close)
    /\ verdict' = check_golden_cross(df')
    /\ UNCHANGED <<daily_prices, storeVars, answer>>
    /\ UNCHANGED nonDbVars

\* ------------------------------------------ run_analysis_from_db and reentry

Runs == 1..MaxRuns

\* the date ranges /analyze is given
Ranges == {<<s, e>> \in RankDays \X RankDays : s < e}

\* None where the name of a file is expected
NoFile == <<>>

\* no run of run_analysis_from_db has begun and config.DATA_DIR is empty
IdleRun ==
    /\ data_dir = {}
    /\ apc = [r \in Runs |-> "idle"]
    /\ csv_path = [r \in Runs |-> NoFile]
    /\ combined_top100 = [r \in Runs |-> <<>>]
    /\ prev_file = [r \in Runs |-> NoFile]
    /\ prev_df = [r \in Runs |-> <<>>]
    /\ reentry_df = [r \in Runs |-> <<>>]

\* 132: DataFrame(results).to_csv(filepath, index=False): one line per
\* record, its fields in the order of the columns
to_csv(recs) ==
    [i \in 1..Len(recs) |->
        <<recs[i].code, recs[i].market, recs[i].start_price,
          recs[i].end_price, recs[i].return_rate>>]

\* 303: pd.read_csv(prev_file, dtype={"종목코드": str}): one row per line
read_csv(lines) ==
    [i \in 1..Len(lines) |->
        [code |-> lines[i][1], market |-> lines[i][2],
         start_price |-> lines[i][3], end_price |-> lines[i][4],
         return_rate |-> lines[i][5]]]

\* 129: growth_combined_{start_date}_{end_date}.csv; the names of two files
\* in the order of sorted(), which is the order of (start_date, end_date)
name_le(a, b) == a[1] < b[1] \/ (a[1] = b[1] /\ a[2] <= b[2])

\* 127-134: the file of the range is written, over an earlier one of the
\* same name; mtime numbers the writes
save_combined_csv(dir, recs, s, e) ==
    LET stamp == IF dir = {} THEN 1
                 ELSE 1 + (CHOOSE n \in {f.mtime : f \in dir} :
                               \A f \in dir : f.mtime <= n)
    IN  {f \in dir : f.name # <<s, e>>}
            \cup {[name |-> <<s, e>>, lines |-> to_csv(recs), mtime |-> stamp]}

\* the lookup without its argument exclude_file
get_latest_data_file_any(dir, exclude_file) ==
    LET files == {f.name : f \in dir}
    IN  IF files = {} THEN NoFile
        ELSE CHOOSE n \in files : \A m \in files : name_le(m, n)

\* 75-82: the last of the sorted names that is not exclude_file
get_latest_data_file(dir, exclude_file) ==
    LET files == {f.name : f \in dir} \ {exclude_file}
    IN  IF files = {} THEN NoFile
        ELSE CHOOSE n \in files : \A m \in files : name_le(m, n)

RECURSIVE sort_values(_)
\* 122: result.sort_values("현재_순위"), the rows in ascending order of it
sort_values(rows) ==
    IF rows = {} THEN <<>>
    ELSE LET r == CHOOSE x \in rows : \A y \in rows : x.curr_rank <= y.curr_rank
         IN  <<r>> \o sort_values(rows \ {r})

\* the comparison when the band is cut as prev_df.iloc[lower:upper]
find_reentry_stocks_shifted(prev, curr) ==
    LET lower == REENTRY_LOWER
        upper == REENTRY_UPPER
        last == IF Len(prev) < upper THEN Len(prev) ELSE upper
        prev_bottom == [i \in 1..(last - lower) |->
                           [row |-> prev[lower + i], rank |-> lower + i - 1]]
        curr_rows == [i \in 1..Len(curr) |-> [row |-> curr[i], rank |-> i]]
        reentry_codes ==
            {prev_bottom[i].row.code : i \in DOMAIN prev_bottom}
                \cap {curr[i].code : i \in DOMAIN curr}
        iloc0(frame, code) ==
            frame[CHOOSE i \in DOMAIN frame :
                      /\ frame[i].row.code = code
                      /\ \A j \in 1..(i - 1) : frame[j].row.code # code]
        row(code) ==
            [code |-> code,
             prev_rank |-> iloc0(prev_bottom, code).rank,
             prev_rate |-> iloc0(prev_bottom, code).row.return_rate,
             curr_rank |-> iloc0(curr_rows, code).rank,
             curr_rate |-> iloc0(curr_rows, code).row.return_rate]
    IN  IF Len(prev) < lower THEN <<>>
        ELSE IF reentry_codes = {} THEN <<>>
        ELSE sort_values({row(code) : code \in reentry_codes})

\* 85-124; prev_bottom and curr_rows pair every row with its 이전_순위 or
\* 현재_순위
find_reentry_stocks(prev, curr) ==
    LET lower == REENTRY_LOWER
        upper == REENTRY_UPPER
        last == IF Len(prev) < upper THEN Len(prev) ELSE upper
        prev_bottom == [i \in 1..(last - lower + 1) |->
                           [row |-> prev[lower - 1 + i], rank |-> lower + i - 1]]
        curr_rows == [i \in 1..Len(curr) |-> [row |-> curr[i], rank |-> i]]
        reentry_codes ==
            {prev_bottom[i].row.code : i \in DOMAIN prev_bottom}
                \cap {curr[i].code : i \in DOMAIN curr}
        iloc0(frame, code) ==
            frame[CHOOSE i \in DOMAIN frame :
                      /\ frame[i].row.code = code
                      /\ \A j \in 1..(i - 1) : frame[j].row.code # code]
        row(code) ==
            [code |-> code,
             prev_rank |-> iloc0(prev_bottom, code).rank,
             prev_rate |-> iloc0(prev_bottom, code).row.return_rate,
             curr_rank |-> iloc0(curr_rows, code).rank,
             curr_rate |-> iloc0(curr_rows, code).row.return_rate]
    IN  IF Len(prev) < lower THEN <<>>
        ELSE IF reentry_codes = {} THEN <<>>
        ELSE sort_values({row(code) : code \in reentry_codes})

\* 248-298: the three rankings are read; ValueError when the combined one is
\* empty, else the snapshot of the range is written. The runs are threads
\* of asyncio.to_thread (main.py 507) and can overlap.
SaveCombinedCsv(r, s, e) ==
    LET combined_records == get_prices(daily_prices, s, e, "", TOP_N)
    IN  /\ apc[r] = "idle"
        /\ r > 1 => apc[r - 1] # "idle"
        /\ IF combined_records = <<>>
           THEN /\ apc' = [apc EXCEPT ![r] = "raised"]
                /\ UNCHANGED <<data_dir, csv_path, combined_top100>>
           ELSE /\ apc' = [apc EXCEPT ![r] = "saved"]
                /\ csv_path' = [csv_path EXCEPT ![r] = <<s, e>>]
                /\ combined_top100' =
                       [combined_top100 EXCEPT ![r] = combined_records]
                /\ data_dir' = save_combined_csv(data_dir, combined_records, s, e)
        /\ UNCHANGED <<prev_file, prev_df, reentry_df>>
        /\ UNCHANGED nonRunVars

\* 300-311: the latest other snapshot is looked up and read, and the
\* reentry comparison made against it
Reentry(r) ==
    LET found == get_latest_data_file(data_dir, csv_path[r])
        read == read_csv((CHOOSE f \in data_dir : f.name = found).lines)
    IN  /\ apc[r] = "saved"
        /\ apc' = [apc EXCEPT ![r] = "returned"]
        /\ prev_file' = [prev_file EXCEPT ![r] = found]
        /\ IF found # NoFile
           THEN /\ prev_df' = [prev_df EXCEPT ![r] = read]
                /\ reentry_df' =
                       [reentry_df EXCEPT
                           ![r] = find_reentry_stocks(read, combined_top100[r])]
           ELSE UNCHANGED <<prev_df, reentry_df>>
        /\ UNCHANGED <<data_dir, csv_path, combined_top100>>
        /\ UNCHANGED nonRunVars

\* ------------------------------------------- add_watchlist, remove_watchlist

Users == 1..NumUsers

\* 76: platform TEXT; this bot passes 'discord', the default is 'telegram'
Platforms == {"discord", "telegram"}

\* the names the stock list can give an instrument
Names == {"name", "renamed"}

\* no call of add_watchlist or remove_watchlist has been made
IdleWatch ==
    /\ watchlist = {}
    /\ wl_call = [fn |-> "none"]
    /\ wl_ops = 0

\* UNIQUE(user_id, platform, 종목코드)
SameEntry(r, q) ==
    r.user_id = q.user_id /\ r.platform = q.platform /\ r.code = q.code

\* INSERT OR REPLACE INTO watchlist: the statement changes one row always
insert_or_replace_entry(table, row) ==
    [table |-> {r \in table : ~SameEntry(r, row)} \cup {row}, rowcount |-> 1]

\* 458-462: INSERT OR IGNORE INTO watchlist, with cursor.rowcount
insert_or_ignore(table, row) ==
    IF \E r \in table : SameEntry(r, row)
    THEN [table |-> table, rowcount |-> 0]
    ELSE [table |-> table \cup {row}, rowcount |-> 1]

\* 484-488: DELETE FROM watchlist WHERE user_id = ? AND platform = ? AND
\* 종목코드 = ?, with cursor.rowcount
delete_where(table, user_id, platform, stock_code) ==
    LET hit == {r \in table : /\ r.user_id = user_id
                              /\ r.platform = platform
                              /\ r.code = stock_code}
    IN  [table |-> table \ hit, rowcount |-> Cardinality(hit)]

\* 443-467; today is datetime.date.today(), which does not go back
add_watchlist(user_id, stock_code, stock_name, platform, today) ==
    LET row == [user_id |-> user_id, platform |-> platform,
                code |-> stock_code, name |-> stock_name, date |-> today]
        done == insert_or_ignore(watchlist, row)
    IN  /\ wl_ops < MaxWatchOps
        /\ \A r \in watchlist : r.date <= today
        /\ wl_ops' = wl_ops + 1
        /\ watchlist' = done.table
        /\ wl_call' = [fn |-> "add_watchlist", user_id |-> user_id,
                       platform |-> platform, code |-> stock_code,
                       name |-> stock_name, date |-> today,
                       out |-> done.rowcount > 0]
        /\ UNCHANGED nonWatchVars

\* 469-491
remove_watchlist(user_id, stock_code, platform) ==
    LET done == delete_where(watchlist, user_id, platform, stock_code)
    IN  /\ wl_ops < MaxWatchOps
        /\ wl_ops' = wl_ops + 1
        /\ watchlist' = done.table
        /\ wl_call' = [fn |-> "remove_watchlist", user_id |-> user_id,
                       platform |-> platform, code |-> stock_code,
                       out |-> done.rowcount > 0]
        /\ UNCHANGED nonWatchVars

\* ---------------------------------------------------------- specifications

Init ==
    /\ InitToken
    /\ InitGate
    /\ IdleBatch
    /\ IdleCollect
    /\ IdleStore
    /\ IdleAnalysis
    /\ IdleRun
    /\ IdleWatch

NextToken ==
    \/ \E t \in Callers : TokenStep(t)
    \/ Tick

SpecToken == Init /\ [][NextToken]_vars

SpecGate == Init /\ [][GateStep]_vars

\* one batch of get_top_growth_stocks or add_financial_data, from the moment
\* its opening get_access_token (649 / 534) has returned a valid token
InitBatch ==
    /\ InitGate
    /\ now = 0
    /\ access_token = 1
    /\ token_expired_at = MaxTime + buffer + 1
    /\ token_lock = None
    /\ tpc = [t \in Callers |-> "idle"]
    /\ pending = [t \in Callers |-> None]
    /\ ret = [t \in Callers |-> None]
    /\ posts = [t \in Callers |-> 0]
    /\ sawInvalid = [t \in Callers |-> FALSE]
    /\ startEpoch = [t \in Callers |-> 0]
    /\ raced = [t \in Callers |-> FALSE]
    /\ epoch = 1
    /\ IdleCollect
    /\ IdleStore
    /\ IdleAnalysis
    /\ IdleRun
    /\ IdleWatch
    /\ bpc = "running"
    /\ bkind \in {"price", "fin"}
    /\ total \in 0..MaxBatch
    /\ stage = [s \in Stages |-> IF s = "queued" THEN total ELSE 0]
    /\ results_lock = FALSE
    /\ completed = 0
    /\ results = 0
    /\ dropped = 0
    /\ authFailures = 0

\* 705-725 (556-559): the executor is left and the function returns
BatchReturn ==
    /\ bpc = "running"
    /\ AllCollected
    /\ bpc' = "returned"
    /\ UNCHANGED <<bkind, total, stage, results_lock, completed, results,
                   dropped, authFailures>>
    /\ UNCHANGED <<tokenVars, nonBatchVars>>

NextBatch ==
    \/ Dispatch
    \/ \E s \in {"sleep", "sleep2"} : SetHeader(s)
    \/ \E o \in {"ok", "none", "err"} : FetchReturn(o)
    \/ FinancialReturn
    \/ \E o \in {"f_ok", "f_none", "f_err"} : LockResults(o)
    \/ \E o \in {"l_ok", "l_none"} : CountTry(o)
    \/ CountExcept
    \/ \E o \in {"d_ok", "d_none"} : Collect(o)
    \/ BatchReturn

SpecBatch == InitBatch /\ [][NextBatch]_vars

\* one run_collection on a new database, its pool threads going through the
\* token manager whenever set_header finds the token invalid
NextCollect ==
    \/ \E s \in Dates, e \in Dates : RunCollection(s, e)
    \/ \E t \in Callers : Check1(t)
    \/ \E t \in Callers : Ret1(t)
    \/ \E t \in Callers : Acquire(t)
    \/ \E t \in Callers : Recheck(t)
    \/ \E t \in Callers : PostFail(t)
    \/ \E t \in Callers : PostOk(t)
    \/ \E t \in Callers : StoreExpiry(t)
    \/ Tick
    \/ \E n \in 0..MaxListed : TokenReady(n)
    \/ TokenFailed
    \/ Dispatch
    \/ \E s \in {"sleep", "sleep2"} : SetHeader(s)
    \/ \E t \in Callers, a \in {"auth", "auth2"} : AuthReturned(t, a)
    \/ \E t \in Callers, a \in {"auth", "auth2"} : AuthRaised(t, a)
    \/ \E o \in {"ok", "none", "err"} : FetchReturn(o)
    \/ FinancialReturn
    \/ \E o \in {"f_ok", "f_none", "f_err"} : LockResults(o)
    \/ \E o \in {"l_ok", "l_none"} : CountTry(o)
    \/ CountExcept
    \/ \E o \in {"d_ok", "d_none"} : Collect(o)
    \/ BatchReturn
    \/ AfterKospi
    \/ AfterKosdaq
    \/ FinancialReady
    \/ AfterFinancial

SpecCollect == Init /\ [][NextCollect]_vars

\* calls of save_daily_prices on a new database, one after the other
NextStore ==
    \/ SaveNothing
    \/ \E recs \in Batches(RecordUniverse(WriteDays)) : SaveKeyError(recs)
    \/ \E recs \in Batches(RecordUniverse(WriteDays)) : SaveConnect(recs)
    \/ ExecuteRow
    \/ ExecuteRaises
    \/ Commit
    \/ SaveReturn

SpecStore == Init /\ [][NextStore]_vars

\* a database that holds rows already; get_cached_stock_codes is called, and
\* stored rows are saved again
InitCache ==
    /\ InitToken
    /\ InitGate
    /\ IdleBatch
    /\ wf = "idle"
    /\ wferr = "none"
    /\ start_date = 0
    /\ end_date = 0
    /\ kospi_all = 0
    /\ kosdaq_all = 0
    /\ prices = {}
    /\ daily_prices \in Stores(Days, {MaxClose})
    /\ spc = "idle"
    /\ records = <<>>
    /\ cursor = 0
    /\ txn = {}
    /\ snapshot = {}
    /\ lastWrite = daily_prices
    /\ prevBatch = <<>>
    /\ saves = 0
    /\ IdleAnalysis
    /\ IdleRun
    /\ IdleWatch

\* the rows the tables of Stores(Days, {MaxClose}) are made of
StoredRows(days) == {Record(d, c, MaxClose) : d \in days, c \in Codes}

NextCache ==
    \/ \E s \in Days, e \in Days : QueryCached(s, e)
    \/ \E recs \in Batches(StoredRows(Days)) : SaveAgain(recs)

SpecCache == InitCache /\ [][NextCache]_vars

\* a database that holds rows already; one ranking query is made
InitRank ==
    /\ InitToken
    /\ InitGate
    /\ IdleBatch
    /\ wf = "idle"
    /\ wferr = "none"
    /\ start_date = 0
    /\ end_date = 0
    /\ kospi_all = 0
    /\ kosdaq_all = 0
    /\ prices = {}
    /\ daily_prices \in Stores(RankDays, {0, 1, MaxClose})
    /\ spc = "idle"
    /\ records = <<>>
    /\ cursor = 0
    /\ txn = {}
    /\ snapshot = {}
    /\ lastWrite = daily_prices
    /\ prevBatch = <<>>
    /\ saves = 0
    /\ IdleAnalysis
    /\ IdleRun
    /\ IdleWatch

NextRank ==
    \/ \E s \in RankDays, e \in RankDays, market \in Markets,
          top_n \in (-1)..NumCodes : QueryPrices(s, e, market, top_n)
    \/ \E s \in RankDays, e \in RankDays, stock_codes \in SUBSET Codes :
          QueryPricesByCodes(s, e, stock_codes)

SpecRank == InitRank /\ [][NextRank]_vars

\* a frame of candles has been fetched; check_golden_cross is applied to it
InitCross ==
    /\ InitToken
    /\ InitGate
    /\ IdleBatch
    /\ IdleCollect
    /\ IdleStore
    /\ IdleRun
    /\ IdleWatch
    /\ answer = [fn |-> "none"]
    /\ df \in Frames(Closes) \cup Frames({6, 10})
    /\ verdict = [signal |-> FALSE, reason |-> "none"]

NextCross ==
    \/ CheckGoldenCross
    \/ \E close \in Closes : NextCandle(close)

SpecCross == InitCross /\ [][NextCross]_vars

\* the daily store holds rows; /analyze is run on ranges of its days
InitAnalyze ==
    /\ InitToken
    /\ InitGate
    /\ IdleBatch
    /\ wf = "idle"
    /\ wferr = "none"
    /\ start_date = 0
    /\ end_date = 0
    /\ kospi_all = 0
    /\ kosdaq_all = 0
    /\ prices = {}
    /\ daily_prices \in Stores(RankDays, {1, MaxClose})
    /\ spc = "idle"
    /\ records = <<>>
    /\ cursor = 0
    /\ txn = {}
    /\ snapshot = {}
    /\ lastWrite = daily_prices
    /\ prevBatch = <<>>
    /\ saves = 0
    /\ IdleAnalysis
    /\ IdleRun
    /\ IdleWatch

NextAnalyze ==
    \/ \E r \in Runs : \E range \in Ranges :
           SaveCombinedCsv(r, range[1], range[2])
    \/ \E r \in Runs : Reentry(r)

SpecAnalyze == InitAnalyze /\ [][NextAnalyze]_vars

\* the snapshots of at most n instruments: one record per instrument, in
\* descending order of the return
Snapshots(n) ==
    LET orders == UNION {[1..k -> 1..n] : k \in 1..n}
        record(o, i) ==
            [code |-> o[i], market |-> MarketOf(o[i]), start_price |-> 1,
             end_price |-> 1 + Len(o) - i,
             return_rate |-> return_rate(1, 1 + Len(o) - i)]
    IN  {[i \in DOMAIN o |-> record(o, i)] :
             o \in {q \in orders :
                        \A i, j \in DOMAIN q : i # j => q[i] # q[j]}}

\* an earlier run has left a snapshot; the first run of this session has
\* written its own and is about to look the earlier one up
InitReentry ==
    /\ InitToken
    /\ InitGate
    /\ IdleBatch
    /\ IdleCollect
    /\ IdleStore
    /\ IdleAnalysis
    /\ \E earlier \in Snapshots(MaxSnapshot), current \in Snapshots(MaxSnapshot) :
           \E own \in Ranges, other \in Ranges :
              /\ own # other
              /\ data_dir = {[name |-> other, lines |-> to_csv(earlier),
                              mtime |-> 1],
                             [name |-> own, lines |-> to_csv(current),
                              mtime |-> 2]}
              /\ csv_path = [r \in Runs |-> IF r = 1 THEN own ELSE NoFile]
              /\ combined_top100 = [r \in Runs |-> IF r = 1 THEN current ELSE <<>>]
    /\ apc = [r \in Runs |-> IF r = 1 THEN "saved" ELSE "idle"]
    /\ prev_file = [r \in Runs |-> NoFile]
    /\ prev_df = [r \in Runs |-> <<>>]
    /\ reentry_df = [r \in Runs |-> <<>>]
    /\ IdleWatch

NextReentry == \E r \in Runs : Reentry(r)

SpecReentry == InitReentry /\ [][NextReentry]_vars

NextWatch ==
    \/ \E user_id \in Users, stock_code \in Codes, stock_name \in Names,
          platform \in Platforms, today \in 1..MaxToday :
           add_watchlist(user_id, stock_code, stock_name, platform, today)
    \/ \E user_id \in Users, stock_code \in Codes, platform \in Platforms :
           remove_watchlist(user_id, stock_code, platform)

SpecWatch == Init /\ [][NextWatch]_vars

\* ------------------------------------------------------------ claims C1-C2

\* a workflow is executing: past the gate, or scanning on the schedule
Executing ==
    Cardinality({r \in Requests : rpc[r] = "running"})
      + (IF auto = "scanning" THEN 1 ELSE 0)

\* C1: at any time at most one top-level collection-or-scan workflow (a
\* /collect run, a /scan run, or the scheduled auto_scan) is executing.
C1_AtMostOneWorkflow == Executing <= 1

\* a request is accepted from the gate check until it leaves the gate
Accepted(r) == rpc[r] \in {"defer", "waiting", "running"}

\* C2: a /collect or /scan request issued while another one has been accepted
\* and has not yet finished is rejected at once, so two requests are never
\* accepted at the same time and none ever waits for the gate.
C2_SecondRequestRejectedNotQueued ==
    /\ Cardinality({r \in Requests : Accepted(r)}) <= 1
    /\ \A r \in Requests : rpc[r] # "waiting"

\* ------------------------------------------------------------ claims C3-C6

\* C3: under any interleaving of concurrent get_access_token callers, at
\* most one credential exchange request is in flight at any time.
C3_AtMostOneExchangeInFlight ==
    Cardinality({t \in Callers : tpc[t] = "post"}) <= 1

\* an exchange is in flight while another caller waits for the token lock
C3_Witness ==
    \E t, u \in Callers : t # u /\ tpc[t] = "post" /\ tpc[u] = "lock"

\* C4 as stated: a caller that was in the refresh path while another
\* caller's exchange was in flight never makes an exchange call of its own.
C4_OtherCallersNeverExchange ==
    \A t \in Callers : raced[t] => posts[t] = 0

\* C4 amended: an exchange call is only ever in flight while the stored
\* credential is invalid (so a caller that re-checks under the lock and finds
\* the winner's credential valid makes none), and a caller whose first check
\* failed and that returns without an exchange returns a token stored by a
\* refresh that completed after that check, i.e. one obtained by a winner.
C4_LosersReuseValidCredential ==
    /\ \A t \in Callers :
          tpc[t] = "post" =>
             ~(access_token # None /\ token_expired_at # None
               /\ now < token_expired_at - 1)
    /\ \A t \in Callers :
          (tpc[t] = "returned" /\ sawInvalid[t] /\ posts[t] = 0) =>
             (ret[t] > startEpoch[t] /\ ret[t] <= epoch)
    /\ \A t \in Callers : posts[t] <= 1

\* a caller that lost the race has returned the winner's token, no exchange
C4_Witness ==
    \E t, u \in Callers :
        /\ t # u
        /\ raced[t] /\ tpc[t] = "returned" /\ posts[t] = 0
        /\ tpc[u] = "returned" /\ posts[u] = 1
        /\ ret[t] = ret[u] /\ ret[t] # None

\* C5: when the exchange returns a non-success response the call raises
\* after exactly one exchange attempt, the stored token and expiry are left
\* unchanged, and the token lock is released.
C5_FailedExchangeRaisesAndReleases ==
    [][\A t \in Callers :
          (tpc[t] = "post" /\ tpc'[t] = "raised")
             => /\ posts[t] = 1
                /\ posts'[t] = 1
                /\ ret'[t] = None
                /\ access_token' = access_token
                /\ token_expired_at' = token_expired_at
                /\ token_lock = t
                /\ token_lock' = None]_vars

\* one caller has raised and a later caller's exchange is in flight
C5_Witness ==
    \E t, u \in Callers : t # u /\ tpc[t] = "raised" /\ tpc[u] = "post"

\* C6: the cached token is returned without an exchange only if a token is
\* stored and now is strictly before expiresAt - 1 minute at the check; with
\* no stored credential, or at or after expiresAt - 1 minute, the first check
\* sends the caller to the lock and the check under the lock to the exchange.
C6_ValidOnlyStrictlyBeforeBuffer ==
    [][\A t \in Callers :
          LET valid == /\ access_token # None
                       /\ token_expired_at # None
                       /\ now < token_expired_at - 1
          IN /\ (tpc[t] = "check1" /\ tpc'[t] # "check1") =>
                   (tpc'[t] = (IF valid THEN "ret1" ELSE "lock"))
             /\ (tpc[t] = "recheck" /\ tpc'[t] # "recheck") =>
                   /\ tpc'[t] = (IF valid THEN "returned" ELSE "post")
                   /\ posts'[t] = (IF valid THEN 0 ELSE 1)
             /\ (tpc[t] = "ret1" /\ tpc'[t] # "ret1") =>
                   (tpc'[t] = "returned" /\ posts'[t] = 0)]_vars

\* an exchange is in flight for a credential exactly one minute from expiry
C6_Witness ==
    \E t \in Callers :
        /\ tpc[t] = "post"
        /\ access_token # None
        /\ token_expired_at # None
        /\ now = token_expired_at - 1

\* ------------------------------------------------------------ claims C8-C9

\* C8: when a price batch of N units has returned and M of them raised or
\* had no usable data, the result holds exactly N - M items and the
\* completed counter equals N; a failing unit never ends the batch early.
C8_BatchSurvivesUnitFailures ==
    (bpc = "returned" /\ bkind = "price") =>
        /\ completed = total
        /\ results = total - dropped
        /\ stage["collected"] = total

\* a full batch has returned with both failed and successful units in it
C8_Witness ==
    /\ bpc = "returned"
    /\ bkind = "price"
    /\ total = MaxBatch
    /\ dropped = 2
    /\ results = MaxBatch - 2
    /\ completed = MaxBatch

\* C9: in a price batch and in a financial batch alike, never more than
\* max_workers (5) units of work are executing at the same moment.
C9_AtMostFiveUnitsRunning ==
    Running <= max_workers

\* five units are executing and a sixth is still waiting for a pool thread
C9_Witness ==
    /\ Running = max_workers
    /\ stage["queued"] > 0

\* ----------------------------------------------------- claims C7 and C10

\* C7: when a credential exchange has failed anywhere inside run_collection,
\* in the middle of a batch included, the failure reaches the caller of
\* run_collection as an error: the workflow never returns normally.
C7_AuthFailureReachesWorkflowCaller ==
    authFailures > 0 => wf # "returned"

\* C10: once run_collection(start_date, end_date) has returned normally,
\* has_data(start_date, end_date) is true of the store that analysis reads.
C10_CollectionFeedsAnalysisStore ==
    wf = "returned" => has_data(start_date, end_date)


\* ---------------------------------------------------------- claims C11-C12

\* UNIQUE(날짜, 종목코드): no two stored rows share a key
OneRowPerKey == \A r \in daily_prices, q \in daily_prices : SameKey(r, q) => r = q

\* C11: save_daily_prices is an idempotent upsert keyed by (date, code): the
\* store holds at most one row per key, and that row is the one the last
\* committed write of the key gave; a call that commits the same batch as the
\* call before it leaves the store as that call left it
C11_IdempotentUpsert ==
    /\ [](OneRowPerKey /\ daily_prices = lastWrite)
    /\ [][(spc = "executemany" /\ spc' = "committed" /\ records = prevBatch)
              => daily_prices' = daily_prices]_vars

\* the second call has committed the batch of the first, whose second record
\* overwrote its first
C11_Witness ==
    /\ spc = "committed"
    /\ saves = 2
    /\ records = prevBatch
    /\ Len(records) = 2
    /\ SameKey(records[1], records[2])
    /\ records[1].close # records[2].close
    /\ daily_prices = {records[2]}

\* C12: while a call of save_daily_prices is executing its rows, and after it
\* has raised, the committed table is the table the call found
C12_AllOrNothing ==
    spc \in {"executemany", "raised"} => daily_prices = snapshot

\* the call raised on its second row, after its first row was executed on a
\* table that already held rows
C12_Witness ==
    /\ spc = "raised"
    /\ cursor = 1
    /\ snapshot # {}
    /\ records[1] \notin snapshot


\* ---------------------------------------------------------- claims C13-C14

\* the instruments whose earliest stored day is at most n days after s and
\* whose latest stored day is at most n days before e, counted on the calendar
Covering(table, s, e, n) ==
    {c \in Codes :
        /\ \E r \in table : r.code = c /\ strptime(r.date) <= strptime(s) + n
        /\ \E r \in table : r.code = c /\ strptime(r.date) >= strptime(e) - n}

\* C13: get_cached_stock_codes(start, end) returns exactly the instruments
\* whose earliest stored date is at most start + 7 days and whose latest
\* stored date is at least end - 7 days; when end - 7 days is not after
\* start + 7 days the exact start and end are the thresholds
C13_CachedWithinTolerance ==
    answer.fn = "get_cached_stock_codes" =>
        LET s == answer.args[1]
            e == answer.args[2]
        IN  answer.out =
                IF strptime(e) - 7 <= strptime(s) + 7
                THEN Covering(daily_prices, s, e, 0)
                ELSE Covering(daily_prices, s, e, 7)

\* a range that crosses the end of January: an instrument that has neither
\* the first nor the last day of the range is returned
C13_Witness ==
    /\ answer.fn = "get_cached_stock_codes"
    /\ strptime(answer.args[2]) - 7 > strptime(answer.args[1]) + 7
    /\ answer.args[2] \div 100 # answer.args[1] \div 100
    /\ \E c \in answer.out :
           \A r \in daily_prices :
               r.code = c => r.date \notin {answer.args[1], answer.args[2]}
    /\ answer.out # {r.code : r \in daily_prices}

\* C14: writing stored rows again leaves every answer of
\* get_cached_stock_codes as it was, and a call with the arguments of the
\* call before it returns the set that call returned
C14_CachedStableUnderReUpsert ==
    /\ [][saves' = saves + 1 =>
              \A s \in Days, e \in Days :
                  get_cached_stock_codes(daily_prices', s, e)
                      = get_cached_stock_codes(daily_prices, s, e)]_vars
    /\ [][(/\ answer.fn = "get_cached_stock_codes"
           /\ answer'.fn = "get_cached_stock_codes"
           /\ answer'.args = answer.args) => answer'.out = answer.out]_vars

\* a call made after rows were written again returned instruments
C14_Witness ==
    /\ answer.fn = "get_cached_stock_codes"
    /\ answer.after > 0
    /\ answer.out # {}
    /\ answer.out # {r.code : r \in daily_prices}


\* ---------------------------------------------------------- claims C15-C18

\* the stored rows of instrument c dated within [s, e]
InRange(c, s, e) ==
    {r \in daily_prices : r.code = c /\ s <= r.date /\ r.date <= e}

Earliest(rows) == CHOOSE r \in rows : \A q \in rows : r.date <= q.date

Latest(rows) == CHOOSE r \in rows : \A q \in rows : r.date >= q.date

\* the positions of the records of instrument c in a ranked output
RecordsOf(out, c) == {i \in 1..Len(out) : out[i].code = c}

\* C15: in the output of get_prices without top_n, an instrument of the
\* market asked for that has two rows or more within [start, end] and a
\* nonzero close on the earliest of them has exactly one record, whose start
\* price is the close of its earliest row, whose end price is the close of
\* its latest row and whose return is round((end - start) / start * 100, 2);
\* every other instrument has no record
C15_OneRecordPerRankedInstrument ==
    (answer.fn = "get_prices" /\ answer.args[4] = None) =>
        LET s == answer.args[1]
            e == answer.args[2]
            market == answer.args[3]
        IN  \A c \in Codes :
                LET rows == InRange(c, s, e)
                IN  IF /\ market \in {"", MarketOf(c)}
                       /\ Cardinality(rows) >= 2
                       /\ Earliest(rows).close # 0
                    THEN /\ Cardinality(RecordsOf(answer.out, c)) = 1
                         /\ \A i \in RecordsOf(answer.out, c) :
                              /\ answer.out[i].start_price = Earliest(rows).close
                              /\ answer.out[i].end_price = Latest(rows).close
                              /\ 2 * answer.out[i].return_rate * Earliest(rows).close
                                     - 20000 * (Latest(rows).close - Earliest(rows).close)
                                   \in (0 - Earliest(rows).close)..Earliest(rows).close
                    ELSE RecordsOf(answer.out, c) = {}

\* one instrument is ranked, with a return that had to be rounded, and an
\* instrument with two rows in range and a zero start price is left out
C15_Witness ==
    /\ answer.fn = "get_prices"
    /\ answer.args[4] = None
    /\ Len(answer.out) = 1
    /\ answer.out[1].return_rate % 100 # 0
    /\ \E c \in Codes :
           /\ Cardinality(InRange(c, answer.args[1], answer.args[2])) >= 2
           /\ Earliest(InRange(c, answer.args[1], answer.args[2])).close = 0

\* the position of instrument c in the order in which grouping met the
\* instruments of the rows the call loaded
Encountered(c) ==
    LET stocks == grouping(
            IF answer.fn = "get_prices"
            THEN select(daily_prices, answer.args[1], answer.args[2], answer.args[3])
            ELSE select_in(daily_prices, answer.args[1], answer.args[2], answer.args[3]))
    IN  CHOOSE i \in 1..Len(stocks) : stocks[i].code = c

\* C16: the output of get_prices is in descending order of return, and it
\* is a prefix of the output of the same call without top_n
C16_SortedAndPrefix ==
    answer.fn = "get_prices" =>
        LET full == get_prices(daily_prices, answer.args[1], answer.args[2],
                               answer.args[3], None)
        IN  /\ \A i \in 1..Len(answer.out), j \in 1..Len(answer.out) :
                   i < j => answer.out[i].return_rate >= answer.out[j].return_rate
            /\ Len(answer.out) <= Len(full)
            /\ answer.out = SubSeq(full, 1, Len(answer.out))

\* top_n = 1 cut a ranking of two records whose better one was grouped last
C16_Witness ==
    /\ answer.fn = "get_prices"
    /\ answer.args[4] = 1
    /\ Len(answer.out) = 1
    /\ LET full == get_prices(daily_prices, answer.args[1], answer.args[2],
                              answer.args[3], None)
       IN  /\ Len(full) = 2
           /\ full[1].return_rate > full[2].return_rate
           /\ Encountered(full[1].code) > Encountered(full[2].code)

\* C17: records of equal return stand in the order in which grouping first
\* met their instruments
C17_StableTieBreak ==
    answer.fn \in {"get_prices", "get_prices_by_codes"} =>
        \A i \in 1..Len(answer.out), j \in 1..Len(answer.out) :
            (i < j /\ answer.out[i].return_rate = answer.out[j].return_rate)
                => Encountered(answer.out[i].code) < Encountered(answer.out[j].code)

\* two records of equal return, the instrument with the greater code first
\* because its first row in range is the earlier one
C17_Witness ==
    /\ answer.fn = "get_prices"
    /\ Len(answer.out) = 2
    /\ answer.out[1].return_rate = answer.out[2].return_rate
    /\ answer.out[1].code > answer.out[2].code

\* C18: get_prices_by_codes(start, end, S) returns the records of
\* get_prices(start, end) without market and top_n whose instrument is in S,
\* in the same order; an empty S gives an empty list
C18_ByCodesIsRestriction ==
    answer.fn = "get_prices_by_codes" =>
        LET full == get_prices(daily_prices, answer.args[1], answer.args[2], "", None)
            InS(x) == x.code \in answer.args[3]
        IN  /\ answer.out = SelectSeq(full, InS)
            /\ answer.args[3] = {} => answer.out = <<>>

\* both instruments were asked for and their records tie; the instrument
\* with the greater code comes first, as in the output of get_prices
C18_Witness ==
    /\ answer.fn = "get_prices_by_codes"
    /\ Len(answer.out) = 2
    /\ answer.out[1].return_rate = answer.out[2].return_rate
    /\ answer.out[1].code > answer.out[2].code


\* ---------------------------------------------------------- claims C19-C20

\* the mean of the n closes ending at candle i is at most the mean of the
\* m closes ending there
MeanLe(i, n, m) ==
    LET total3 == window_sum(df, i, n)
        total5 == window_sum(df, i, m)
    IN  total3 * m <= total5 * n

\* C19: on a frame of six candles or more whose closes are all defined the
\* signal is true exactly when MA3 <= MA5 at the candle before the last and
\* MA3 > MA5 at the last
C19_SignalIffCrossover ==
    (/\ verdict.reason # "none"
     /\ Len(df) >= 6
     /\ \A i \in 1..Len(df) : df[i] # NaN)
        => (verdict.signal <=> (/\ MeanLe(Len(df) - 1, 3, 5)
                                /\ ~MeanLe(Len(df), 3, 5)))

\* the signal was given on a frame whose two means were equal at the candle
\* before the last
C19_Witness ==
    /\ verdict.signal
    /\ Len(df) >= 6
    /\ \A i \in 1..Len(df) : df[i] # NaN
    /\ MeanLe(Len(df) - 1, 3, 5)
    /\ MeanLe(Len(df) - 1, 5, 3)

Reasons ==
    {"insufficient candles", "moving average undefined at latest",
     "moving average undefined at previous", "crossover detected",
     "already above", "still below"}

\* C20: a verdict carries one of the six reasons, and its signal is true
\* exactly when that reason is the crossover
C20_OneReasonSignalIffCrossover ==
    verdict.reason # "none" =>
        /\ verdict.reason \in Reasons
        /\ verdict.signal <=> verdict.reason = "crossover detected"

\* six candles or more, the means of the last candle defined and a mean of
\* the candle before it undefined
C20_Witness ==
    /\ verdict.reason = "moving average undefined at previous"
    /\ Len(df) >= 6
    /\ ~verdict.signal


\* ---------------------------------------------------------- claims C21-C23

\* C21: on a frame of fewer than six candles, the empty frame included, the
\* verdict is signal = false with the insufficient-data reason, whatever the
\* closes are
C21_FewCandlesInsufficient ==
    (verdict.reason # "none" /\ Len(df) < 6)
        => (~verdict.signal /\ verdict.reason = "insufficient candles")

\* five candles whose means cross at the last one were judged
C21_Witness ==
    /\ Len(df) = 5
    /\ df[4] = 1
    /\ df[5] = MaxClose
    /\ \A i \in 1..5 : df[i] # NaN
    /\ verdict.reason = "insufficient candles"

\* the frame of the example, oldest candle first
ExampleFrame == <<10, 10, 10, 10, 10, 6>>

\* the example turned round: five equal closes and a higher last close
RisingFrame == <<6, 6, 6, 6, 6, 10>>

\* C22 as stated: on the closes 10, 10, 10, 10, 10, 6 the verdict is
\* signal = true with the crossover reason
C22_ExampleGivesSignal ==
    (df = ExampleFrame /\ verdict.reason # "none")
        => (verdict.signal /\ verdict.reason = "crossover detected")

\* C22 amended: on the closes 10, 10, 10, 10, 10, 6 the last MA3 (26/3) is
\* below the last MA5 (46/5), so the verdict is signal = false with the
\* still-below reason; the signal with the crossover reason is what the
\* closes 6, 6, 6, 6, 6, 10 give
C22_ExampleStillBelow ==
    /\ (df = ExampleFrame /\ verdict.reason # "none")
           => (~verdict.signal /\ verdict.reason = "still below")
    /\ (df = RisingFrame /\ verdict.reason # "none")
           => (verdict.signal /\ verdict.reason = "crossover detected")

\* the frame of the example was judged
C22_Witness ==
    /\ df = ExampleFrame
    /\ verdict.reason = "still below"

Band(prev) == {i \in REENTRY_LOWER..REENTRY_UPPER : i <= Len(prev)}

\* the instruments of the band of prev that appear in curr
Reentered(prev, curr) ==
    {prev[i].code : i \in Band(prev)} \cap {curr[j].code : j \in DOMAIN curr}

\* C24: against a previous snapshot of L entries or more the comparison
\* returns exactly one record for each instrument that holds a position of
\* [L, U] in the previous snapshot and appears in the current one, and no
\* other record; a record carries the instrument's position in the previous
\* and in the current snapshot, and the records are in ascending order of
\* the current position
C24_ReentryIsBandInCurrent ==
    \A r \in Runs :
        (/\ apc[r] = "returned"
         /\ prev_file[r] # NoFile
         /\ Len(prev_df[r]) >= REENTRY_LOWER)
            => LET prev == prev_df[r]
                   curr == combined_top100[r]
                   out == reentry_df[r]
               IN  /\ \A c \in Reentered(prev, curr) :
                          Cardinality({k \in DOMAIN out : out[k].code = c}) = 1
                   /\ \A k \in DOMAIN out :
                          /\ out[k].code \in Reentered(prev, curr)
                          /\ out[k].prev_rank \in Band(prev)
                          /\ prev[out[k].prev_rank].code = out[k].code
                          /\ out[k].curr_rank \in DOMAIN curr
                          /\ curr[out[k].curr_rank].code = out[k].code
                   /\ \A k \in 1..(Len(out) - 1) :
                          out[k].curr_rank < out[k + 1].curr_rank

\* a previous snapshot longer than U whose band holds one instrument that
\* is in the current snapshot and one that is not, its first instrument
\* being in the current snapshot too
C24_Witness ==
    \E r \in Runs :
        /\ apc[r] = "returned"
        /\ Len(prev_df[r]) > REENTRY_UPPER
        /\ Len(reentry_df[r]) = 1
        /\ reentry_df[r][1].prev_rank = REENTRY_UPPER
        /\ reentry_df[r][1].curr_rank = 1
        /\ \E j \in DOMAIN combined_top100[r] :
               combined_top100[r][j].code = prev_df[r][1].code
        /\ \A j \in DOMAIN combined_top100[r] :
               combined_top100[r][j].code # prev_df[r][REENTRY_LOWER].code

\* C25: the reentry result of a run is empty when the previous snapshot it
\* read has fewer than L entries, and when the directory held no snapshot
\* but the run's own (no previous snapshot is looked up then)
C25_NoHistoryNoReentry ==
    \A r \in Runs :
        apc[r] = "returned" =>
            /\ (\A f \in data_dir : f.name = csv_path[r])
                   => (prev_file[r] = NoFile /\ reentry_df[r] = <<>>)
            /\ (prev_file[r] # NoFile /\ Len(prev_df[r]) < REENTRY_LOWER)
                   => reentry_df[r] = <<>>

\* a first run whose own snapshot has L entries found no previous one, and
\* a later run read a previous snapshot of one entry, an instrument that is
\* in its own snapshot
C25_Witness ==
    \E r \in Runs, q \in Runs :
        /\ apc[r] = "returned"
        /\ prev_file[r] = NoFile
        /\ Len(combined_top100[r]) >= REENTRY_LOWER
        /\ apc[q] = "returned"
        /\ prev_file[q] # NoFile
        /\ Len(prev_df[q]) = 1
        /\ \E j \in DOMAIN combined_top100[q] :
               combined_top100[q][j].code = prev_df[q][1].code
        /\ reentry_df[q] = <<>>

\* C26: the previous snapshot a run's reentry comparison reads is the one
\* that was written last among the snapshots of the other runs, and never
\* the snapshot the run has written itself
C26_PreviousIsLatestWritten ==
    [][\A r \in Runs :
           (apc[r] = "saved" /\ apc'[r] = "returned" /\ prev_file'[r] # NoFile)
               => /\ prev_file'[r] # csv_path[r]
                  /\ \E p \in data_dir :
                         /\ p.name = prev_file'[r]
                         /\ \A f \in data_dir :
                                f.name # csv_path[r] => f.mtime <= p.mtime]_vars

\* ---------------------------------------------------------------- claim C27

\* the entries of the table that have the key of the last call
Entries(table) ==
    {r \in table : /\ r.user_id = wl_call'.user_id
                   /\ r.platform = wl_call'.platform
                   /\ r.code = wl_call'.code}

\* C27: the watchlist holds at most one entry per (user, platform,
\* instrument); add returns true exactly when the entry was absent, and
\* when it returns false the entry is left as it was; remove returns true
\* exactly when the entry was present; the entries of every other key stay
\* as they were
C27_WatchlistUniqueAndExact ==
    /\ [](\A r \in watchlist, q \in watchlist : SameEntry(r, q) => r = q)
    /\ [][wl_ops' = wl_ops + 1 =>
            /\ wl_call'.fn = "add_watchlist" =>
                   /\ wl_call'.out <=> Entries(watchlist) = {}
                   /\ ~wl_call'.out => watchlist' = watchlist
                   /\ Cardinality(Entries(watchlist')) = 1
            /\ wl_call'.fn = "remove_watchlist" =>
                   /\ wl_call'.out <=> Entries(watchlist) # {}
                   /\ Entries(watchlist') = {}
            /\ watchlist' \ Entries(watchlist')
                   = watchlist \ Entries(watchlist)]_vars

\* add was called for an entry that is there under another name and an
\* earlier day, and returned false, while the same instrument is on the
\* list of another user or platform
C27_Witness ==
    /\ wl_call.fn = "add_watchlist"
    /\ ~wl_call.out
    /\ \E r \in watchlist :
           /\ SameEntry(r, wl_call)
           /\ r.name # wl_call.name
           /\ r.date < wl_call.date
    /\ \E r \in watchlist : ~SameEntry(r, wl_call) /\ r.code = wl_call.code

\* ---------------------------------------------------------------- claim C28

\* the caller's validity check, lock-free (line 101) or under the lock
\* (line 106), finds the credential valid in this step
Accepts(t) ==
    \/ tpc[t] = "check1" /\ tpc'[t] = "ret1"
    \/ tpc[t] = "recheck" /\ tpc'[t] = "returned"

Holders == {r \in Requests : rpc[r] = "running"}

\* C29: a /collect or /scan workflow that holds the gate gives the permit
\* back when it finishes, by success or by an error; the permit is out
\* only while a workflow is running, so with no workflow running and none
\* waiting the gate is not locked, and a request is turned away as busy only
\* while another one runs or waits
C29_GateReleasedOnEveryExit ==
    /\ [](kis_value + Cardinality(Holders) = 1)
    /\ []((\A r \in Requests : rpc[r] \notin {"running", "waiting"}) => ~locked)
    /\ [][\A r \in Requests :
             /\ (rpc[r] = "running" /\ rpc'[r] \in {"done", "failed"})
                    => kis_value' = kis_value + 1
             /\ (rpc[r] = "new" /\ rpc'[r] = "busy")
                    => \E q \in Requests : rpc[q] \in {"running", "waiting"}]_vars

\* a workflow has ended by an error while a request was turned away as
\* busy; the gate is free and a request issued after it has been accepted
C29_Witness ==
    \E r \in Requests, b \in Requests, q \in Requests :
        /\ rpc[r] = "failed"
        /\ rpc[b] = "busy"
        /\ rpc[q] = "defer"
        /\ kis_value = 1
        /\ kis_waiters = <<>>

\* ------------------------------------------------------------- claim C30

\* C30 as the specification states it: every instrument that
\* get_cached_stock_codes(start, end) returns has a stored row dated within
\* [start, end], and has_data(start, end) is true when the returned set is
\* not empty
C30_CachedHasRowInRange ==
    answer.fn = "get_cached_stock_codes" =>
        LET s == answer.args[1]
            e == answer.args[2]
        IN  /\ \A c \in answer.out :
                   \E r \in daily_prices :
                       r.code = c /\ s <= r.date /\ r.date <= e
            /\ answer.out # {} => has_data(s, e)

\* C30: every instrument that get_cached_stock_codes(start, end) returns has
\* a stored row dated at most start + 7 days and a stored row dated at least
\* end - 7 days, so the table is not empty when the returned set is not
\* empty; the rows need not lie within [start, end]
C30_CachedHasRowsAtBothEdges ==
    answer.fn = "get_cached_stock_codes" =>
        LET s == answer.args[1]
            e == answer.args[2]
        IN  /\ \A c \in answer.out :
                   /\ \E r \in daily_prices :
                          r.code = c /\ strptime(r.date) <= strptime(s) + 7
                   /\ \E r \in daily_prices :
                          r.code = c /\ strptime(r.date) >= strptime(e) - 7
            /\ answer.out # {} => daily_prices # {}

\* a call over a range start < end returned an instrument whose rows are all
\* dated before start or after end, and no row of the table is in the range
C30_Witness ==
    /\ answer.fn = "get_cached_stock_codes"
    /\ answer.args[1] < answer.args[2]
    /\ answer.out # {}
    /\ ~has_data(answer.args[1], answer.args[2])
    /\ \E c \in answer.out :
           /\ \E r \in daily_prices : r.code = c /\ r.date < answer.args[1]
           /\ \E r \in daily_prices : r.code = c /\ r.date > answer.args[2]

=============================================================================
